---------------------------- MODULE Spec2Model ----------------------------
(* A model of the per-channel MML compiler of p6psgmmlc                    *)
(* (src/mml_compiler.c, src/mml_compiler.h) and of the buffers the driver  *)
(* (src/main.c) hands to it.                                               *)
(*                                                                         *)
(* The channel record `c` is the MML_Compiler struct.  A source line is    *)
(* presented to the model as the statements the scanner finds in it, one   *)
(* action per statement kind (one per case label of compile_command, one   *)
(* for compile_note); numeric operands are digit strings, converted the    *)
(* way parse_unsigned / parse_para convert them.  White space, which the   *)
(* scanner skips before every token, is left out.                          *)
EXTENDS Integers, Sequences, FiniteSets, TLC

VARIABLES
    c,      \* the MML_Compiler struct (plus two history fields, see Chan0)
    pc,     \* where the caller is: "idle" (between public calls), "line"
            \* (inside the while loop of mml_compile_line), "skip" (inside
            \* mml_compile_line, scanning characters that X or ; discards),
            \* "done" (after mml_finish_channel)
    ret,    \* value returned by the last public call that returned
    call,   \* the public call that last returned or is running
    last,   \* history: the last statement compiled (or the finish call), with
            \* the channel as it was just before it and the error state as
            \* it was just after it
    gl,     \* history, per nesting level: what was true when the loop now
            \* held in loops[level] was opened / when its ':' was compiled
    nstmt,  \* what is left of the behaviour's budget of statements
    drv     \* the driver (main.c): its three channels, flags, position and
            \* the object file; NoDriver where a channel is driven directly

vars == <<c, pc, ret, call, last, gl, nstmt, drv>>

(* ----------------------------------------------------------------------- *)
(* Program constants                                                       *)
(* ----------------------------------------------------------------------- *)
MML_MAX_NEST == 4
LOOP_NOEXIT == 0
CH_BUF_SIZE == 32768
INT_MAX == 2147483647
UINT16_MAX == 65535

MML_OK == "OK"
MML_ERR_SYNTAX == "SYNTAX"
MML_ERR_FUNC_RANGE == "FUNC_RANGE"
MML_ERR_OCTAVE == "OCTAVE"
MML_ERR_OUT_OF_NEST == "OUT_OF_NEST"
MML_ERR_CLOSE_NEST == "CLOSE_NEST"
MML_ERR_DUP_EXIT == "DUP_EXIT"
MML_ERR_RETURN_IN_NEST == "RETURN_IN_NEST"
MML_ERR_NOTE_OVERFLOW == "NOTE_OVERFLOW"
MML_ERR_INTERNAL == "INTERNAL"

(* ----------------------------------------------------------------------- *)
(* C integer conversions                                                   *)
(* ----------------------------------------------------------------------- *)
U8(v) == v % 256
U16(v) == v % 65536
\* a + b in int for a, b >= 0: a sum above INT_MAX is signed overflow
\* (undefined), which the two's-complement build wraps to a + b - 2^32
int_add(a, b) ==
    IF a > 0 /\ b > INT_MAX - a
    THEN (((a - 1) - (INT_MAX - b)) - INT_MAX) - 1
    ELSE a + b
\* a 16-bit word read back as a signed value
S16(w) == IF w >= 32768 THEN w - 65536 ELSE w

(* ----------------------------------------------------------------------- *)
(* Scanner: digit strings                                                  *)
(* ----------------------------------------------------------------------- *)
RECURSIVE unsigned_value(_, _)
unsigned_value(digs, v) ==
    IF digs = <<>> THEN v
    ELSE unsigned_value(Tail(digs),
             IF v > (INT_MAX - Head(digs)) \div 10 THEN INT_MAX
             ELSE v * 10 + Head(digs))

\* parse_unsigned: ok is FALSE when no digit is present.  The source
\* accumulates in a long and clamps to INT_MAX after every digit; the clamp
\* is taken here before the multiplication, which gives the same value.
parse_unsigned(digs) ==
    [ok |-> digs # <<>>, v |-> unsigned_value(digs, 0)]

\* parse_signed on an operand [sign, digs]
parse_signed(opd) ==
    LET u == parse_unsigned(opd.digs)
    IN  [ok |-> u.ok, v |-> IF opd.sign = "-" THEN -u.v ELSE u.v]

\* the operand left as it is (two's complement once truncated to a byte)
sign_byte_raw(v) == v

sign_byte(v) ==
    IF v >= 0 THEN v
    ELSE IF ((-v) \div 128) % 2 = 1 THEN -v ELSE (-v) + 128

(* ----------------------------------------------------------------------- *)
(* Channel record, errors, emitter                                         *)
(* ----------------------------------------------------------------------- *)
LoopState0 ==
    [loop_start |-> 0, exit_mark |-> LOOP_NOEXIT,
     saved_l_len96 |-> 0, saved_lp_len96 |-> 0,
     saved_octave |-> 0, saved_octave_last |-> 0]

\* mml_channel_init.  out holds out[0..out_len); out_len is Len(out).
\* drop counts the emissions refused for lack of space since the current
\* public call began, oob records a store outside out[0..out_cap): both are
\* history, not fields of the struct.
Chan0(cap) ==
    [out |-> <<>>, out_cap |-> cap,
     l_len96 |-> 24, lp_len96 |-> 192, octave |-> 4, octave_last |-> 4,
     key_shift |-> 0, nest_depth |-> 0,
     loops |-> [i \in 0 .. MML_MAX_NEST - 1 |-> LoopState0],
     error |-> MML_OK,
     drop |-> 0, oob |-> FALSE]

out_len(ch) == Len(ch.out)

set_error(ch, e) ==
    IF ch.error = MML_OK THEN [ch EXCEPT !.error = e] ELSE ch

ensure_space(ch, need) == ~(out_len(ch) + need > ch.out_cap)

emit_byte(ch, v) ==
    IF ~ensure_space(ch, 1)
    THEN [set_error(ch, MML_ERR_INTERNAL) EXCEPT !.drop = @ + 1]
    ELSE [ch EXCEPT !.out = Append(@, U8(v))]

emit_word_le(ch, v) ==
    IF ~ensure_space(ch, 2)
    THEN [set_error(ch, MML_ERR_INTERNAL) EXCEPT !.drop = @ + 1]
    ELSE [ch EXCEPT !.out = @ \o <<U16(v) % 256, U16(v) \div 256>>]

\* c->out[idx] = v for a computed index.  size_t arithmetic wraps, so an
\* index "below 0" addresses the byte before the buffer: that store is
\* undefined behaviour and is recorded in oob.  A store at or above out_len
\* but inside the buffer lands in bytes not yet emitted.
poke(ch, idx, v) ==
    IF idx >= 0 /\ idx < out_len(ch)
    THEN [ch EXCEPT !.out[idx + 1] = U8(v)]
    ELSE IF idx >= 0 /\ idx < ch.out_cap THEN ch
    ELSE [ch EXCEPT !.oob = TRUE]


(* ----------------------------------------------------------------------- *)
(* PARA parser and length resolver                                         *)
(* ----------------------------------------------------------------------- *)
\* the digit loop of parse_para: the accumulator is a uint16_t, so every
\* step is reduced modulo 2^16 before the saturation test
RECURSIVE para_value(_, _)
para_value(digs, value) ==
    IF digs = <<>> THEN value
    ELSE LET w == U16(value * 10 + Head(digs))
         IN  para_value(Tail(digs), IF w >= UINT16_MAX THEN UINT16_MAX ELSE w)

\* parse_para on the token sequence ['%'] ['+'|'-'] digits*
parse_para(p) ==
    [percent |-> p.pct, plus |-> p.sign = "+", minus |-> p.sign = "-",
     novalue |-> p.digs = <<>>,
     value   |-> para_value(p.digs, 0)]

LengthDenominators == {1, 2, 3, 4, 6, 8, 12, 16, 24, 32, 48, 96}

\* the dots loop without its test of an odd half
RECURSIVE dots_loop_floor(_, _, _)
dots_loop_floor(len96, half, dots) ==
    IF dots = 0 THEN [ok |-> TRUE, len |-> len96]
    ELSE dots_loop_floor(len96 + half \div 2, half \div 2, dots - 1)

RECURSIVE dots_loop(_, _, _)
dots_loop(len96, half, dots) ==
    IF dots = 0 THEN [ok |-> TRUE, len |-> len96]
    ELSE IF half % 2 # 0 THEN [ok |-> FALSE, len |-> len96]
    ELSE dots_loop(len96 + half \div 2, half \div 2, dots - 1)

\* apply_dots accepting every dot, whatever it splits
apply_dots_always(base_len96, dots) ==
    LET r == dots_loop_floor(base_len96, base_len96, dots)
    IN  IF r.len <= 0 \/ r.len > 32767 THEN [ok |-> FALSE, len |-> r.len]
        ELSE r

apply_dots(base_len96, dots) ==
    LET r == dots_loop(base_len96, base_len96, dots)
    IN  IF ~r.ok THEN r
        ELSE IF r.len <= 0 \/ r.len > 32767 THEN [ok |-> FALSE, len |-> r.len]
        ELSE r

\* one length term: parse_para, the '%' / denominator checks, the dots
length_term(ch, t) ==
    LET pa == parse_para(t)
        base ==
            IF pa.percent
            THEN IF pa.novalue \/ pa.value < 1 \/ pa.value > 255
                 THEN [ok |-> FALSE, len |-> 0]
                 ELSE [ok |-> TRUE, len |-> pa.value]
            ELSE IF pa.novalue THEN [ok |-> TRUE, len |-> ch.l_len96]
            ELSE IF pa.value \in LengthDenominators
                 THEN [ok |-> TRUE, len |-> 96 \div pa.value]
                 ELSE [ok |-> FALSE, len |-> 0]
    IN  IF ~base.ok THEN [ok |-> FALSE, len |-> 0, flag |-> pa]
        ELSE IF t.dots > 0
             THEN LET d == apply_dots(base.len, t.dots)
                  IN  [ok |-> d.ok, len |-> d.len, flag |-> pa]
             ELSE [ok |-> TRUE, len |-> base.len, flag |-> pa]

\* the terms lo..hi of a length specification: every term must resolve,
\* and the lengths add up.  The source recurses once per '^' (term lo, then
\* the rest); the sum is associative and every failure is the same
\* set_error(FUNC_RANGE), so the range is halved here instead, which keeps the
\* evaluation shallow for specifications of hundreds of terms.
RECURSIVE length_sum(_, _, _, _)
length_sum(ch, terms, lo, hi) ==
    IF lo = hi
    THEN LET t == length_term(ch, terms[lo]) IN [ok |-> t.ok, len |-> t.len]
    ELSE LET mid   == (lo + hi) \div 2
             left  == length_sum(ch, terms, lo, mid)
         IN  IF ~left.ok THEN [ok |-> FALSE, len |-> 0]
             ELSE LET right == length_sum(ch, terms, mid + 1, hi)
                  IN  IF ~right.ok THEN [ok |-> FALSE, len |-> 0]
                      ELSE [ok |-> TRUE, len |-> left.len + right.len]

\* parse_length_96 on the terms of a length specification (the first term,
\* then one term per '^').  ok = FALSE is the path on which the function has
\* called set_error(FUNC_RANGE) and returned 0.  flag is the PARA flag of
\* the first term only: the recursive call passes flagp = NULL.
parse_length_96(ch, terms) ==
    LET r == length_sum(ch, terms, 1, Len(terms))
    IN  [ok |-> r.ok, len |-> r.len, flag |-> parse_para(terms[1])]

(* ----------------------------------------------------------------------- *)
(* Notes and rests                                                         *)
(* ----------------------------------------------------------------------- *)
notename_to_tonenum(name) ==
    CASE name = "C" -> 1  [] name = "D" -> 3  [] name = "E" -> 5
      [] name = "F" -> 6  [] name = "G" -> 8  [] name = "A" -> 10
      [] name = "B" -> 12 [] OTHER -> -1

length_bits(ch, len96) ==
    IF len96 = ch.l_len96 THEN 0
    ELSE IF len96 = ch.lp_len96 THEN 1
    ELSE IF len96 <= 255 THEN 2
    ELSE 3

make_note_header(ch, tone, len96, tie) ==
    U8((IF tie THEN 1 ELSE 0) * 64 + length_bits(ch, len96) * 16 + (U8(tone) % 16))

\* set_octave without its range check
set_octave_unchecked(ch, n) == [ch EXCEPT !.octave = n]

set_octave(ch, n) ==
    IF n < 1 \/ n > 8 THEN set_error(ch, MML_ERR_OCTAVE)
    ELSE [ch EXCEPT !.octave = n]

\* emit_octave that does not record the octave it has emitted
emit_octave_unrecorded(ch, n) ==
    IF n < 1 \/ n > 8 THEN set_error(ch, MML_ERR_OCTAVE)
    ELSE emit_byte(ch, 128 + n)

emit_octave(ch, n) ==
    IF n < 1 \/ n > 8 THEN set_error(ch, MML_ERR_OCTAVE)
    ELSE [emit_byte(ch, 128 + n) EXCEPT !.octave_last = n]

\* note_pitch without the clip of the accidental to 1..12
note_pitch_unclipped(ch, n) ==
    IF n.note = "R" THEN [ok |-> TRUE, tone |-> 0, octave |-> ch.octave]
    ELSE
    LET t0 == notename_to_tonenum(n.note)
        t2 == IF n.acc \in {"#", "+"} THEN t0 + 1
              ELSE IF n.acc = "-" THEN t0 - 1 ELSE t0
        t3 == t2 + ch.key_shift
    IN  IF ch.key_shift = 0 THEN [ok |-> TRUE, tone |-> t2, octave |-> ch.octave]
        ELSE LET tone == IF t3 > 12 THEN t3 - 12 ELSE IF t3 < 1 THEN t3 + 12 ELSE t3
                 oct  == IF t3 > 12 THEN ch.octave + 1
                         ELSE IF t3 < 1 THEN ch.octave - 1 ELSE ch.octave
             IN  [ok |-> ~(oct < 1 \/ oct > 8), tone |-> tone, octave |-> oct]

\* the tone and octave a note letter resolves to (the first half of
\* compile_note); ok = FALSE is the NOTE_OVERFLOW return
note_pitch(ch, n) ==
    IF n.note = "R" THEN [ok |-> TRUE, tone |-> 0, octave |-> ch.octave]
    ELSE
    LET t0 == notename_to_tonenum(n.note)
        t1 == IF n.acc \in {"#", "+"} THEN t0 + 1
              ELSE IF n.acc = "-" THEN t0 - 1 ELSE t0
        t2 == IF t1 > 12 THEN 12 ELSE IF t1 < 1 THEN 1 ELSE t1
        t3 == t2 + ch.key_shift
    IN  IF ch.key_shift = 0 THEN [ok |-> TRUE, tone |-> t2, octave |-> ch.octave]
        ELSE LET tone == IF t3 > 12 THEN t3 - 12 ELSE IF t3 < 1 THEN t3 + 12 ELSE t3
                 oct  == IF t3 > 12 THEN ch.octave + 1
                         ELSE IF t3 < 1 THEN ch.octave - 1 ELSE ch.octave
             IN  [ok |-> ~(oct < 1 \/ oct > 8), tone |-> tone, octave |-> oct]

\* the bytes of a note: optional octave byte, header, optional length
emit_note(ch, octave, tone, len96, tie) ==
    LET c1 == IF ch.octave_last # octave THEN emit_octave(ch, octave) ELSE ch
        c2 == emit_byte(c1, make_note_header(c1, tone, len96, tie))
    IN  IF len96 # c2.l_len96 /\ len96 # c2.lp_len96
        THEN IF len96 <= 255 THEN emit_byte(c2, len96)
             ELSE emit_word_le(c2, len96)
        ELSE c2

\* compile_note on n = [note, acc, len, tie]
compile_note(ch, n) ==
    LET p == note_pitch(ch, n)
    IN  IF ~p.ok THEN set_error(ch, MML_ERR_NOTE_OVERFLOW)
        ELSE LET r == parse_length_96(ch, n.len)
             IN  IF ~r.ok THEN set_error(ch, MML_ERR_FUNC_RANGE)
                 ELSE IF r.flag.plus \/ r.flag.minus
                      THEN set_error(ch, MML_ERR_FUNC_RANGE)
                 ELSE emit_note(ch, p.octave, p.tone, r.len, n.tie)


(* ----------------------------------------------------------------------- *)
(* Commands (the cases of compile_command)                                 *)
(* ----------------------------------------------------------------------- *)
\* an operand list "n1,n2,...": signs[i] tells whether operand i is read by
\* parse_signed.  Operand i is unreadable when it has no digit, or carries a
\* sign that parse_unsigned does not accept; a list shorter than signs is a
\* missing ','.
args_ok(args, signs) ==
    /\ Len(args) = Len(signs)
    /\ \A i \in 1 .. Len(signs) :
          /\ args[i].digs # <<>>
          /\ (signs[i] \/ args[i].sign = "")

arg_value(a) == parse_signed(a).v

\* a command that takes one unsigned operand in lo..hi ('V', 'I', 'Q', 'W')
\* and emits the bytes bytes(v)
ranged_unsigned(ch, digs, lo, hi, bytes(_)) ==
    LET u == parse_unsigned(digs)
    IN  IF ~u.ok THEN set_error(ch, MML_ERR_FUNC_RANGE)
        ELSE IF u.v < lo \/ u.v > hi THEN set_error(ch, MML_ERR_FUNC_RANGE)
        ELSE LET b == bytes(u.v)
             IN  IF Len(b) = 1 THEN emit_byte(ch, b[1])
                 ELSE emit_byte(emit_byte(ch, b[1]), b[2])

\* a command that takes one signed operand in lo..hi and emits op, enc(v)
ranged_signed(ch, opd, lo, hi, op, enc(_)) ==
    LET r == parse_signed(opd)
    IN  IF ~r.ok THEN set_error(ch, MML_ERR_FUNC_RANGE)
        ELSE IF r.v < lo \/ r.v > hi THEN set_error(ch, MML_ERR_FUNC_RANGE)
        ELSE emit_byte(emit_byte(ch, op), enc(r.v))

cmd_O(ch, digs) ==
    LET u == parse_unsigned(digs)
    IN  IF ~u.ok THEN set_error(ch, MML_ERR_FUNC_RANGE)
        ELSE set_octave(ch, u.v)

\* '>' [n]
cmd_octave_up(ch, digs) ==
    LET u == parse_unsigned(digs)
        v == IF u.ok THEN u.v ELSE 1
    IN  set_octave(ch, int_add(ch.octave, v))

\* '<' [n]
cmd_octave_down(ch, digs) ==
    LET u == parse_unsigned(digs)
        v == IF u.ok THEN u.v ELSE 1
    IN  set_octave(ch, ch.octave - v)

\* 'V' with the range 0..16
cmd_V_wide(ch, digs) == ranged_unsigned(ch, digs, 0, 16, LAMBDA v : <<144 + v>>)

cmd_V(ch, digs) == ranged_unsigned(ch, digs, 0, 15, LAMBDA v : <<144 + v>>)

\* '(' [n]
cmd_volume_up(ch, digs) ==
    LET u == parse_unsigned(digs)
        v == IF u.ok THEN u.v ELSE 1
    IN  IF v < 1 \/ v > 15 THEN set_error(ch, MML_ERR_FUNC_RANGE)
        ELSE emit_byte(ch, 176 + v)

\* ')' [n]
cmd_volume_down(ch, digs) ==
    LET u == parse_unsigned(digs)
        v == IF u.ok THEN u.v ELSE 1
    IN  IF v < 1 \/ v > 15 THEN set_error(ch, MML_ERR_FUNC_RANGE)
        ELSE emit_byte(ch, 160 + v)

cmd_I(ch, digs) == ranged_unsigned(ch, digs, 0, 255, LAMBDA v : <<244, v>>)

cmd_J_keeps_nest(ch) ==
    IF ch.nest_depth > 0
    THEN set_error(ch, MML_ERR_RETURN_IN_NEST)
    ELSE emit_byte(ch, 254)

cmd_J(ch) ==
    IF ch.nest_depth > 0
    THEN [set_error(ch, MML_ERR_RETURN_IN_NEST) EXCEPT !.nest_depth = 0]
    ELSE emit_byte(ch, 254)

\* 'L' without its test of the '-' flag
cmd_L_minus_accepted(ch, terms) ==
    LET r == parse_length_96(ch, terms)
    IN  IF ~r.ok THEN set_error(ch, MML_ERR_FUNC_RANGE)
        ELSE IF r.flag.novalue THEN set_error(ch, MML_ERR_FUNC_RANGE)
        ELSE IF r.len < 0 \/ r.len > 255 THEN set_error(ch, MML_ERR_FUNC_RANGE)
        ELSE IF ~r.flag.plus
             THEN emit_byte(emit_byte([ch EXCEPT !.l_len96 = r.len], 249), r.len)
             ELSE emit_byte(emit_byte([ch EXCEPT !.lp_len96 = r.len], 247), r.len)

\* 'L' on a length specification
cmd_L(ch, terms) ==
    LET r == parse_length_96(ch, terms)
    IN  IF ~r.ok THEN set_error(ch, MML_ERR_FUNC_RANGE)
        ELSE IF r.flag.novalue THEN set_error(ch, MML_ERR_FUNC_RANGE)
        ELSE IF r.flag.minus THEN set_error(ch, MML_ERR_FUNC_RANGE)
        ELSE IF r.len < 0 \/ r.len > 255 THEN set_error(ch, MML_ERR_FUNC_RANGE)
        ELSE IF ~r.flag.plus
             THEN emit_byte(emit_byte([ch EXCEPT !.l_len96 = r.len], 249), r.len)
             ELSE emit_byte(emit_byte([ch EXCEPT !.lp_len96 = r.len], 247), r.len)

\* 'M' on m = [pct, args]: "M%n" or "Mn1,n2,n3,n4"
cmd_M(ch, m) ==
    IF m.pct
    THEN ranged_signed(ch, m.args[1], -127, 127, 253, sign_byte)
    ELSE IF ~args_ok(m.args, <<FALSE, FALSE, FALSE, TRUE>>)
         THEN set_error(ch, MML_ERR_FUNC_RANGE)
         ELSE LET n1 == arg_value(m.args[1])
                  n2 == arg_value(m.args[2])
                  n3 == arg_value(m.args[3])
                  n4 == sign_byte(arg_value(m.args[4]))
              IN  emit_byte(emit_byte(emit_byte(emit_byte(emit_byte(ch,
                      245), n1), n2), n3), n4)

cmd_N(ch) == emit_byte(ch, 246)

cmd_P(ch, digs) ==
    LET u == parse_unsigned(digs)
    IN  IF ~u.ok THEN set_error(ch, MML_ERR_FUNC_RANGE)
        ELSE IF u.v = 1 THEN emit_byte(ch, 237)
        ELSE IF u.v = 2 THEN emit_byte(ch, 238)
        ELSE IF u.v = 3 THEN emit_byte(ch, 239)
        ELSE set_error(ch, MML_ERR_FUNC_RANGE)

cmd_Q(ch, digs) == ranged_unsigned(ch, digs, 0, 255, LAMBDA v : <<250, v>>)

\* 'S' on "n1,n2,n3,n4,n5"
cmd_S(ch, args) ==
    IF ~args_ok(args, <<TRUE, FALSE, TRUE, TRUE, TRUE>>)
    THEN set_error(ch, MML_ERR_FUNC_RANGE)
    ELSE LET n1 == arg_value(args[1])
             c2 == emit_byte(emit_byte(ch, 234), n1)
         IN  IF n1 # 0
             THEN emit_byte(emit_byte(emit_byte(emit_byte(c2,
                      arg_value(args[2])), arg_value(args[3])),
                      arg_value(args[4])), sign_byte(arg_value(args[5])))
             ELSE c2

\* 'T' emitting F8 n1 as soon as n1 is known to be in range
cmd_T_emit_early(ch, args) ==
    IF Len(args) = 0 \/ args[1].digs = <<>> \/ args[1].sign # ""
    THEN set_error(ch, MML_ERR_FUNC_RANGE)
    ELSE LET n1 == arg_value(args[1])
         IN  IF n1 < 1 \/ n1 > 255 THEN set_error(ch, MML_ERR_FUNC_RANGE)
             ELSE LET c2 == emit_byte(emit_byte(ch, 248), n1)
                  IN  IF ~args_ok(args, <<FALSE, FALSE>>)
                      THEN set_error(c2, MML_ERR_FUNC_RANGE)
                      ELSE LET n2 == arg_value(args[2])
                           IN  IF n2 < 0 \/ n2 > 255
                               THEN set_error(c2, MML_ERR_FUNC_RANGE)
                               ELSE emit_byte(c2, n2)

\* 'T' on "n1,n2": n1 is range-checked before the ',' is looked for
cmd_T(ch, args) ==
    IF Len(args) = 0 \/ args[1].digs = <<>> \/ args[1].sign # ""
    THEN set_error(ch, MML_ERR_FUNC_RANGE)
    ELSE LET n1 == arg_value(args[1])
         IN  IF n1 < 1 \/ n1 > 255 THEN set_error(ch, MML_ERR_FUNC_RANGE)
             ELSE IF ~args_ok(args, <<FALSE, FALSE>>)
                  THEN set_error(ch, MML_ERR_FUNC_RANGE)
             ELSE LET n2 == arg_value(args[2])
                  IN  IF n2 < 0 \/ n2 > 255
                      THEN set_error(ch, MML_ERR_FUNC_RANGE)
                      ELSE emit_byte(emit_byte(emit_byte(ch, 248), n1), n2)

\* 'U' on u = [pct, opd]: "U%n", "U+n", "U-n"
cmd_U(ch, u) ==
    IF u.pct THEN ranged_signed(ch, u.opd, -127, 127, 251, sign_byte)
    ELSE IF u.opd.sign \in {"+", "-"}
         THEN ranged_signed(ch, u.opd, -127, 127, 252, LAMBDA v : v)
         ELSE set_error(ch, MML_ERR_FUNC_RANGE)

\* 'W' on an operand: "W+n", "W-n" or "Wn"
cmd_W(ch, opd) ==
    IF opd.sign \in {"+", "-"}
    THEN ranged_signed(ch, opd, -31, 31, 236, LAMBDA v : v)
    ELSE ranged_unsigned(ch, opd.digs, 0, 31, LAMBDA v : <<235, v>>)

cmd_X(ch) ==
    IF ch.nest_depth > 0
    THEN [set_error(ch, MML_ERR_RETURN_IN_NEST) EXCEPT !.nest_depth = 0]
    ELSE emit_byte(ch, 233)

\* '_' n
cmd_key_shift(ch, opd) ==
    LET r == parse_signed(opd)
    IN  IF ~r.ok THEN set_error(ch, MML_ERR_FUNC_RANGE)
        ELSE IF r.v < -12 \/ r.v > 12 THEN set_error(ch, MML_ERR_FUNC_RANGE)
        ELSE [ch EXCEPT !.key_shift = r.v]

\* the default case: a character that starts no statement
cmd_unknown(ch) == set_error(ch, MML_ERR_SYNTAX)


(* ----------------------------------------------------------------------- *)
(* Loops: '[', ':', ']'                                                    *)
(* ----------------------------------------------------------------------- *)
\* '['
cmd_loop_open(ch) ==
    IF ch.nest_depth >= MML_MAX_NEST
    THEN [set_error(ch, MML_ERR_FUNC_RANGE) EXCEPT !.nest_depth = 0]
    ELSE LET c2 == emit_byte(emit_byte(ch, 240), 0)
         IN  [c2 EXCEPT !.nest_depth = @ + 1,
                        !.loops[ch.nest_depth] =
                            [LoopState0 EXCEPT !.loop_start = out_len(c2)]]

\* ':'
cmd_loop_exit(ch) ==
    IF ch.nest_depth <= 0
    THEN [set_error(ch, MML_ERR_OUT_OF_NEST) EXCEPT !.nest_depth = 0]
    ELSE IF ch.loops[ch.nest_depth - 1].exit_mark # LOOP_NOEXIT
    THEN [set_error(ch, MML_ERR_DUP_EXIT) EXCEPT !.nest_depth = 0]
    ELSE LET c2 == emit_word_le(emit_byte(ch, 243), 0)
         IN  [c2 EXCEPT !.loops[ch.nest_depth - 1] =
                 [@ EXCEPT !.exit_mark = out_len(c2),
                           !.saved_l_len96 = ch.l_len96,
                           !.saved_lp_len96 = ch.lp_len96,
                           !.saved_octave = U8(ch.octave),
                           !.saved_octave_last = U8(ch.octave_last)]]

\* ']' fills in the count placeholder that '[' emitted, at loop_start - 1
set_loop_count_at_start(ch, ls, count) == poke(ch, ls.loop_start, count)

set_loop_count(ch, ls, count) == poke(ch, ls.loop_start - 1, count)

\* the back-jump without the adjustment of the one-byte form
emit_back_jump_unadjusted(ch, loop_start) ==
    LET jump_pos == out_len(ch)
        offset   == loop_start - (jump_pos + 3)
    IN  IF offset >= -256 /\ offset <= -1
        THEN emit_byte(emit_byte(ch, 241), U8(offset))
        ELSE emit_word_le(emit_byte(ch, 242), U16(offset))

\* the back-jump of ']': F1 off8 or F2 off16, from jump_pos = out_len
emit_back_jump(ch, loop_start) ==
    LET jump_pos == out_len(ch)
        offset   == loop_start - (jump_pos + 3)
    IN  IF offset >= -256 /\ offset <= -1
        THEN emit_byte(emit_byte(ch, 241), U8(offset + 1))
        ELSE emit_word_le(emit_byte(ch, 242), U16(offset))

\* the ':' backpatch measured from the F3 byte instead of the byte after the
\* F3 instruction
patch_loop_exit_from_colon(ch, ls) ==
    IF ls.exit_mark # LOOP_NOEXIT
    THEN LET jump_pos  == out_len(ch)
             colon_pos == ls.exit_mark - 3
             ex16      == U16(jump_pos - colon_pos)
         IN  poke(poke(ch, colon_pos + 1, ex16 % 256), colon_pos + 2, ex16 \div 256)
    ELSE ch

\* the ':' backpatch of ']', made after the back-jump has been emitted: the
\* inner jump_pos of the source is out_len at that point
patch_loop_exit(ch, ls) ==
    IF ls.exit_mark # LOOP_NOEXIT
    THEN LET jump_pos  == out_len(ch)
             colon_pos == ls.exit_mark - 3
             ex16      == U16(jump_pos - (colon_pos + 3))
         IN  poke(poke(ch, colon_pos + 1, ex16 % 256), colon_pos + 2, ex16 \div 256)
    ELSE ch

\* the tail of ']' that restores the octave but not octave_last
restore_saved_octave_only(ch, ls) ==
    LET c1 == IF ls.saved_l_len96 # 0
              THEN [ch EXCEPT !.l_len96 = ls.saved_l_len96] ELSE ch
        c2 == IF ls.saved_lp_len96 # 0
              THEN [c1 EXCEPT !.lp_len96 = ls.saved_lp_len96] ELSE c1
        c3 == IF ls.saved_octave # 0
              THEN [c2 EXCEPT !.octave = ls.saved_octave] ELSE c2
    IN  [c3 EXCEPT !.loops[ch.nest_depth] =
            [@ EXCEPT !.saved_l_len96 = 0, !.saved_lp_len96 = 0,
                      !.saved_octave = 0, !.saved_octave_last = 0]]

\* the tail of ']': pop the level and restore what ':' saved
restore_saved(ch, ls) ==
    LET c1 == IF ls.saved_l_len96 # 0
              THEN [ch EXCEPT !.l_len96 = ls.saved_l_len96] ELSE ch
        c2 == IF ls.saved_lp_len96 # 0
              THEN [c1 EXCEPT !.lp_len96 = ls.saved_lp_len96] ELSE c1
        c3 == IF ls.saved_octave # 0
              THEN [c2 EXCEPT !.octave = ls.saved_octave,
                              !.octave_last = ls.saved_octave_last]
              ELSE c2
    IN  [c3 EXCEPT !.loops[ch.nest_depth] =
            [@ EXCEPT !.saved_l_len96 = 0, !.saved_lp_len96 = 0,
                      !.saved_octave = 0, !.saved_octave_last = 0]]

\* ']' n with the ':' backpatch made before the back-jump is emitted
cmd_loop_close_patch_first(ch, digs) ==
    IF ch.nest_depth <= 0 THEN set_error(ch, MML_ERR_OUT_OF_NEST)
    ELSE LET u == parse_unsigned(digs)
         IN  IF ~u.ok THEN set_error(ch, MML_ERR_FUNC_RANGE)
             ELSE IF u.v < 2 \/ u.v > 255 THEN set_error(ch, MML_ERR_FUNC_RANGE)
             ELSE LET ls == ch.loops[ch.nest_depth - 1]
                      c1 == set_loop_count(ch, ls, u.v)
                      c2 == patch_loop_exit(c1, ls)
                      c3 == emit_back_jump(c2, ls.loop_start)
                  IN  restore_saved([c3 EXCEPT !.nest_depth = @ - 1], ls)

\* ']' n
cmd_loop_close(ch, digs) ==
    IF ch.nest_depth <= 0 THEN set_error(ch, MML_ERR_OUT_OF_NEST)
    ELSE LET u == parse_unsigned(digs)
         IN  IF ~u.ok THEN set_error(ch, MML_ERR_FUNC_RANGE)
             ELSE IF u.v < 2 \/ u.v > 255 THEN set_error(ch, MML_ERR_FUNC_RANGE)
             ELSE LET ls == ch.loops[ch.nest_depth - 1]
                      c1 == set_loop_count(ch, ls, u.v)
                      c2 == emit_back_jump(c1, ls.loop_start)
                      c3 == patch_loop_exit(c2, ls)
                  IN  restore_saved([c3 EXCEPT !.nest_depth = @ - 1], ls)

(* ----------------------------------------------------------------------- *)
(* Public calls                                                            *)
(* ----------------------------------------------------------------------- *)
\* a line start that keeps a recorded error
compile_line_begin_sticky(ch) == [ch EXCEPT !.drop = 0]

\* the head of mml_compile_line: the error state is cleared
compile_line_begin(ch) == [ch EXCEPT !.error = MML_OK, !.drop = 0]

\* mml_finish_channel: the channel afterwards and the value returned
mml_finish_channel(ch) ==
    IF ch.nest_depth # 0
    THEN LET c1 == set_error(ch, MML_ERR_CLOSE_NEST)
         IN  [c |-> c1, ret |-> c1.error]
    ELSE [c |-> [emit_byte(ch, 255) EXCEPT !.error = MML_OK], ret |-> MML_OK]


(* ----------------------------------------------------------------------- *)
(* Inputs: how statements are written down                                 *)
(* ----------------------------------------------------------------------- *)
\* the decimal digits of n
RECURSIVE Dg(_)
Dg(n) == IF n < 10 THEN <<n>> ELSE Append(Dg(n \div 10), n % 10)

NoDigits == <<>>
\* an operand: optional sign, digits
Opd(sign, digs) == [sign |-> sign, digs |-> digs]
\* a length term: ['%'] [sign] digits* dots*
Term(pct, sign, digs, dots) ==
    [pct |-> pct, sign |-> sign, digs |-> digs, dots |-> dots]
\* the length specification that is left out
NoLen == <<Term(FALSE, "", NoDigits, 0)>>
\* "n" and "%n" as whole length specifications
LenN(n) == <<Term(FALSE, "", Dg(n), 0)>>
LenPct(n) == <<Term(TRUE, "", Dg(n), 0)>>
\* the length specification "t^t^...^t" of k terms
RECURSIVE Repeat(_, _)
Repeat(t, k) ==
    IF k = 1 THEN <<t>>
    ELSE LET h == Repeat(t, k \div 2)
         IN  IF k % 2 = 0 THEN h \o h ELSE h \o h \o <<t>>

\* a note or rest: letter, accidental, length specification, '&'
NoteIn(note, acc, len, tie) ==
    [note |-> note, acc |-> acc, len |-> len, tie |-> tie]

(* ----------------------------------------------------------------------- *)
(* State machine                                                           *)
(* ----------------------------------------------------------------------- *)
Fields(ch) == <<ch.l_len96, ch.lp_len96, ch.octave, ch.octave_last>>

\* history of the loop levels: for the '[' last compiled at a level, the
\* nest_depth before it, the offset of its count placeholder and the four
\* fields then; for its ':' (if any) the offset of the F3 byte and the four
\* fields then
GhostLoop0 ==
    [depth |-> 0, hole |-> 0, open |-> <<0, 0, 0, 0>>,
     colon |-> FALSE, f3 |-> 0, snap |-> <<0, 0, 0, 0>>]

\* the value of drv in the specifications that drive one channel directly
NoDriver == [phase |-> "none"]

\* the state after mml_channel_init(c, buf, cap); stmts is the budget of
\* statements the behaviour may go on to compile
InitWith(caps, stmts) ==
    /\ c \in {Chan0(cap) : cap \in caps}
    /\ pc = "idle"
    /\ ret = MML_OK
    /\ call = "init"
    /\ last = [op |-> "init", arg |-> <<>>, pre |-> c, err |-> MML_OK]
    /\ gl = [i \in 0 .. MML_MAX_NEST - 1 |-> GhostLoop0]
    /\ nstmt = stmts
    /\ drv = NoDriver

\* mml_compile_line is entered
BeginLine ==
    /\ pc = "idle"
    /\ c' = compile_line_begin(c)
    /\ pc' = "line"
    /\ call' = "compile"
    /\ UNCHANGED <<ret, last, gl, nstmt, drv>>

\* mml_compile_line returns: the line has no more characters, or a statement
\* has set an error
Return ==
    /\ pc \in {"line", "skip"}
    /\ ret' = c.error
    /\ pc' = "idle"
    /\ UNCHANGED <<c, call, last, gl, nstmt, drv>>

\* a '\n' inside the string ends what X discards; the loop goes on
Newline ==
    /\ pc = "skip"
    /\ pc' = "line"
    /\ UNCHANGED <<c, ret, call, last, gl, nstmt, drv>>

\* what a statement draws from the budget: the loop brackets, which the
\* deep cases are made of, draw 1, a run of statements 3, every other
\* statement 2
Weight(op) ==
    IF op \in {"[", ":", "]"} THEN 1 ELSE IF op = "run" THEN 3 ELSE 2

\* a turn of the while loop that does not test c->error
Stmt_after_error(op, arg, post) ==
    /\ pc = "line"
    /\ nstmt >= Weight(op)
    /\ c' = post
    /\ last' = [op |-> op, arg |-> arg, pre |-> c, err |-> post.error]
    /\ nstmt' = nstmt - Weight(op)
    /\ UNCHANGED <<ret, call, drv>>

\* one turn of the while loop of mml_compile_line: compile_statement
\* dispatches on op, and leaves the channel as post
Stmt(op, arg, post) ==
    /\ pc = "line"
    /\ c.error = MML_OK
    /\ nstmt >= Weight(op)
    /\ c' = post
    /\ last' = [op |-> op, arg |-> arg, pre |-> c, err |-> post.error]
    /\ nstmt' = nstmt - Weight(op)
    /\ UNCHANGED <<ret, call, drv>>

Note(n)        == Stmt("note", n, compile_note(c, n)) /\ UNCHANGED <<pc, gl>>
CmdO(d)        == Stmt("O", d, cmd_O(c, d)) /\ UNCHANGED <<pc, gl>>
CmdOctaveUp(d) == Stmt(">", d, cmd_octave_up(c, d)) /\ UNCHANGED <<pc, gl>>
CmdOctaveDown(d) == Stmt("<", d, cmd_octave_down(c, d)) /\ UNCHANGED <<pc, gl>>
CmdV(d)        == Stmt("V", d, cmd_V(c, d)) /\ UNCHANGED <<pc, gl>>
CmdVolumeUp(d) == Stmt("(", d, cmd_volume_up(c, d)) /\ UNCHANGED <<pc, gl>>
CmdVolumeDown(d) == Stmt(")", d, cmd_volume_down(c, d)) /\ UNCHANGED <<pc, gl>>
CmdI(d)        == Stmt("I", d, cmd_I(c, d)) /\ UNCHANGED <<pc, gl>>
CmdJ           == Stmt("J", <<>>, cmd_J(c)) /\ UNCHANGED <<pc, gl>>
CmdL(t)        == Stmt("L", t, cmd_L(c, t)) /\ UNCHANGED <<pc, gl>>
CmdM(m)        == Stmt("M", m, cmd_M(c, m)) /\ UNCHANGED <<pc, gl>>
CmdN           == Stmt("N", <<>>, cmd_N(c)) /\ UNCHANGED <<pc, gl>>
CmdP(d)        == Stmt("P", d, cmd_P(c, d)) /\ UNCHANGED <<pc, gl>>
CmdQ(d)        == Stmt("Q", d, cmd_Q(c, d)) /\ UNCHANGED <<pc, gl>>
CmdS(a)        == Stmt("S", a, cmd_S(c, a)) /\ UNCHANGED <<pc, gl>>
CmdT(a)        == Stmt("T", a, cmd_T(c, a)) /\ UNCHANGED <<pc, gl>>
CmdU(u)        == Stmt("U", u, cmd_U(c, u)) /\ UNCHANGED <<pc, gl>>
CmdW(o)        == Stmt("W", o, cmd_W(c, o)) /\ UNCHANGED <<pc, gl>>
CmdKeyShift(o) == Stmt("_", o, cmd_key_shift(c, o)) /\ UNCHANGED <<pc, gl>>
CmdUnknown     == Stmt("?", <<>>, cmd_unknown(c)) /\ UNCHANGED <<pc, gl>>

\* k turns of the while loop of mml_compile_line over a line that repeats the
\* statement N: the loop stops at the first error.  (The turns are split in
\* halves only to keep the evaluation shallow.)
RECURSIVE compile_run(_, _)
compile_run(ch, k) ==
    IF k = 0 \/ ch.error # MML_OK THEN ch
    ELSE IF k = 1 THEN cmd_N(ch)
    ELSE compile_run(compile_run(ch, k \div 2), k - k \div 2)

Run(k) == Stmt("run", k, compile_run(c, k)) /\ UNCHANGED <<pc, gl>>

\* X that leaves the rest of the line to be compiled
CmdX_compiles_on ==
    /\ Stmt("X", <<>>, cmd_X(c))
    /\ UNCHANGED <<pc, gl>>

\* X: when it is accepted the rest of the line, up to a '\n', is discarded
CmdX ==
    /\ Stmt("X", <<>>, cmd_X(c))
    /\ pc' = IF c.nest_depth > 0 THEN "line" ELSE "skip"
    /\ UNCHANGED gl

\* ';' at the start of a statement: compile_statement reads through the '\n'
Comment == Stmt(";", <<>>, c) /\ UNCHANGED <<pc, gl>>

LoopOpen ==
    /\ Stmt("[", <<>>, cmd_loop_open(c))
    /\ gl' = IF c.nest_depth >= MML_MAX_NEST THEN gl
             ELSE [gl EXCEPT ![c.nest_depth] =
                      [GhostLoop0 EXCEPT !.depth = c.nest_depth,
                                         !.hole = out_len(c) + 1,
                                         !.open = Fields(c)]]
    /\ UNCHANGED pc

LoopExit ==
    /\ Stmt(":", <<>>, cmd_loop_exit(c))
    /\ gl' = IF c.nest_depth <= 0 THEN gl
             ELSE IF c.loops[c.nest_depth - 1].exit_mark # LOOP_NOEXIT THEN gl
             ELSE [gl EXCEPT ![c.nest_depth - 1] =
                      [@ EXCEPT !.colon = TRUE, !.f3 = out_len(c),
                                !.snap = Fields(c)]]
    /\ UNCHANGED pc

LoopClose(d) == Stmt("]", d, cmd_loop_close(c, d)) /\ UNCHANGED <<pc, gl>>

\* mml_finish_channel is called and returns
Finish ==
    /\ pc = "idle"
    /\ LET r == mml_finish_channel([c EXCEPT !.drop = 0])
       IN  /\ c' = r.c
           /\ ret' = r.ret
           /\ last' = [op |-> "finish", arg |-> <<>>, pre |-> c,
                       err |-> r.c.error]
    /\ pc' = "done"
    /\ call' = "finish"
    /\ UNCHANGED <<gl, nstmt, drv>>


(* ----------------------------------------------------------------------- *)
(* Spec: the channel as its three public calls drive it.  Buffers of a few *)
(* bytes (so that every emission can be the one that does not fit) and the *)
(* driver's buffer; statements of every kind that changes channel state.   *)
(* ----------------------------------------------------------------------- *)
MaxCap == 3
MaxStmts == 6

Caps == (0 .. MaxCap) \cup {CH_BUF_SIZE}

ApiOctaves == {Dg(0), Dg(1), Dg(8), Dg(9)}
ApiOctaveSteps == {NoDigits, Dg(4), Dg(INT_MAX)}
ApiLengths ==
    { LenN(1), LenPct(255), <<Term(FALSE, "+", Dg(96), 0)>>,
      LenN(1) \o LenN(1) \o LenN(1) }
ApiNotes ==
    { NoteIn("C", "", NoLen, FALSE), NoteIn("B", "", LenN(8), TRUE),
      NoteIn("R", "", LenPct(255) \o LenPct(255), FALSE) }
ApiShifts == {Opd("", Dg(12)), Opd("-", Dg(12))}
ApiCounts == {NoDigits, Dg(2)}

Init == InitWith(Caps, MaxStmts)

Next ==
    \/ BeginLine
    \/ Return
    \/ Newline
    \/ Finish
    \/ \E n \in ApiNotes : Note(n)
    \/ \E d \in ApiOctaves : CmdO(d)
    \/ \E d \in ApiOctaveSteps : CmdOctaveUp(d)
    \/ \E d \in ApiOctaveSteps : CmdOctaveDown(d)
    \/ \E t \in ApiLengths : CmdL(t)
    \/ \E o \in ApiShifts : CmdKeyShift(o)
    \/ CmdJ
    \/ CmdX
    \/ CmdUnknown
    \/ LoopOpen
    \/ LoopExit
    \/ \E d \in ApiCounts : LoopClose(d)

Spec == Init /\ [][Next]_vars

\* the record shapes of the model
TypeOK ==
    /\ pc \in {"idle", "line", "skip", "done"}
    /\ call \in {"init", "compile", "finish"}
    /\ out_len(c) <= c.out_cap
    /\ \A i \in 1 .. out_len(c) : c.out[i] \in 0 .. 255


(* ----------------------------------------------------------------------- *)
(* Claims checked under Spec                                               *)
(* ----------------------------------------------------------------------- *)
Finished == pc = "done" /\ call = "finish"

\* the bytes the last statement (or the finish call) appended
Emitted == SubSeq(c.out, out_len(last.pre) + 1, out_len(c))

\* C1: whenever mml_finish_channel returns MML_OK, nest_depth is 0 and the
\* last byte of the output, out[out_len-1], is 0xFF.
C1_FinishOkEndsWithFF ==
    (Finished /\ ret = MML_OK) =>
        /\ c.nest_depth = 0
        /\ out_len(c) > 0
        /\ c.out[out_len(c)] = 255

\* C2: overflow is never silent: a public call during which an emission did
\* not fit (out_len + need > out_cap) returns MML_ERR_INTERNAL; none returns
\* MML_OK after having dropped output.
C2_OverflowNeverSilent ==
    (pc \in {"idle", "done"} /\ call # "init" /\ c.drop > 0) =>
        ret = MML_ERR_INTERNAL

\* the value an octave statement asks for (the operand, 1 when '>' or '<' has
\* none) leaves 1..8
OctaveOutOfRange ==
    LET u == parse_unsigned(last.arg)
        v == IF u.ok THEN u.v ELSE 1
    IN  \/ last.op = "O" /\ u.ok /\ (u.v < 1 \/ u.v > 8)
        \/ last.op = ">" /\ v > 8 - last.pre.octave
        \/ last.op = "<" /\ v > last.pre.octave - 1

\* C3: after mml_channel_init and after every statement, failed or not,
\* 0 <= out_len <= out_cap, 0 <= nest_depth <= 4, octave and octave_last are
\* in 1..8 and l_len96, lp_len96 in 1..255; an O, > or < whose result leaves
\* 1..8 fails with OCTAVE and leaves octave unchanged.
C3_ChannelStateInvariant ==
    /\ 0 <= out_len(c) /\ out_len(c) <= c.out_cap
    /\ c.nest_depth \in 0 .. MML_MAX_NEST
    /\ c.octave \in 1 .. 8
    /\ c.octave_last \in 1 .. 8
    /\ c.l_len96 \in 1 .. 255
    /\ c.lp_len96 \in 1 .. 255
    /\ (last.op \in {"O", ">", "<"} /\ OctaveOutOfRange) =>
          /\ last.err = MML_ERR_OCTAVE
          /\ c.octave = last.pre.octave

\* C3 witness: inside four nested loops, on a full small buffer or not, a '>'
\* whose result leaves 1..8 has just been refused
C3_Witness ==
    /\ c.nest_depth = MML_MAX_NEST
    /\ last.op = ">" /\ OctaveOutOfRange
    /\ last.err = MML_ERR_OCTAVE
    /\ pc = "line"


(* ----------------------------------------------------------------------- *)
(* SpecLoop: the loop brackets to their full depth, with the statements    *)
(* that change what ':' saves, on the driver's buffer and on one that the  *)
(* brackets can fill.                                                      *)
(* ----------------------------------------------------------------------- *)
LoopCap == 9
MaxLoopStmts == 8

LoopCounts == {NoDigits, Dg(1), Dg(2), Dg(255)}
LoopLengths == {LenN(8), <<Term(FALSE, "+", Dg(8), 0)>>}
LoopOctaves == {Dg(6)}
LoopNotes == {NoteIn("C", "", NoLen, FALSE)}

InitLoop == InitWith({LoopCap, CH_BUF_SIZE}, MaxLoopStmts)

NextLoop ==
    \/ BeginLine
    \/ Return
    \/ LoopOpen
    \/ LoopExit
    \/ \E d \in LoopCounts : LoopClose(d)
    \/ \E t \in LoopLengths : CmdL(t)
    \/ \E d \in LoopOctaves : CmdO(d)
    \/ CmdOctaveUp(NoDigits)
    \/ CmdOctaveDown(NoDigits)
    \/ \E n \in LoopNotes : Note(n)

SpecLoop == InitLoop /\ [][NextLoop]_vars

\* the last statement was a ']' that succeeded
LoopClosed == last.op = "]" /\ last.err = MML_OK

\* the history of the level the last ']' closed
ClosedLevel == gl[last.pre.nest_depth - 1]

\* C4: after a ']' that succeeds the count placeholder of the loop being
\* closed (loop_start - 1, the byte after its F0) holds the count, which is in
\* 2..255, and nest_depth is what it was before the matching '['; inside a
\* loop a ']' with no number or with 1 fails with FUNC_RANGE and leaves
\* nest_depth alone, and ']2' succeeds when its back-jump fits the buffer.
C4_LoopCountAndDepth ==
    /\ LoopClosed =>
          /\ last.pre.nest_depth \in 1 .. MML_MAX_NEST
          /\ parse_unsigned(last.arg).v \in 2 .. 255
          /\ ClosedLevel.hole = last.pre.loops[last.pre.nest_depth - 1].loop_start - 1
          /\ c.out[ClosedLevel.hole + 1] = parse_unsigned(last.arg).v
          /\ c.out[ClosedLevel.hole] = 240
          /\ c.nest_depth = ClosedLevel.depth
    /\ (last.op = "]" /\ last.pre.nest_depth > 0 /\ last.arg \in {NoDigits, Dg(1)}) =>
          /\ last.err = MML_ERR_FUNC_RANGE
          /\ c.nest_depth = last.pre.nest_depth
    /\ (last.op = "]" /\ last.pre.nest_depth > 0 /\ last.arg = Dg(2)
            /\ out_len(last.pre) + 3 <= last.pre.out_cap) =>
          last.err = MML_OK

\* C4 witness: the innermost of four nested loops has just been closed with
\* the largest count
C4_Witness ==
    /\ LoopClosed
    /\ last.pre.nest_depth = MML_MAX_NEST
    /\ c.nest_depth = MML_MAX_NEST - 1
    /\ last.arg = Dg(255)
    /\ c.out[ClosedLevel.hole + 1] = 255

\* C7: after a ']' that succeeds, l_len96, lp_len96, octave and octave_last
\* are what they were when the ':' of the loop being closed was compiled, or,
\* when that loop has no ':', what they were just before the ']'; each level
\* has its own snapshot.
C7_SnapshotRestore ==
    LoopClosed =>
        Fields(c) = IF ClosedLevel.colon THEN ClosedLevel.snap
                    ELSE Fields(last.pre)

\* C7 witness: an outer loop whose ':' came before a change of the fields and
\* before an inner loop with a ':' and a different snapshot has just been
\* closed, and the ']' has changed the fields back
C7_Witness ==
    /\ LoopClosed
    /\ last.pre.nest_depth = 1
    /\ ClosedLevel.colon
    /\ gl[1].colon /\ gl[1].f3 > ClosedLevel.f3
    /\ gl[1].snap # ClosedLevel.snap
    /\ Fields(c) # Fields(last.pre)
    /\ Fields(c) = ClosedLevel.snap


(* ----------------------------------------------------------------------- *)
(* SpecJump: loops whose bodies are long enough for both forms of the      *)
(* back-jump, up to what the driver's buffer holds.                        *)
(* ----------------------------------------------------------------------- *)
RunShort == 253
RunLong == 32760
MaxJumpStmts == 6

JumpRuns == {RunShort, RunShort + 1, RunLong}
JumpCounts == {Dg(3)}
JumpNotes == {NoteIn("C", "", NoLen, FALSE), NoteIn("D", "", NoLen, FALSE)}

InitJump == InitWith({CH_BUF_SIZE}, MaxJumpStmts)

NextJump ==
    \/ BeginLine
    \/ Return
    \/ LoopOpen
    \/ LoopExit
    \/ \E d \in JumpCounts : LoopClose(d)
    \/ \E n \in JumpNotes : Note(n)
    \/ \E k \in JumpRuns : Run(k)

SpecJump == InitJump /\ [][NextJump]_vars

\* the displacement a back-jump instruction encodes: the byte of F1 read as
\* the 16-bit value 0xFF00 | byte, the word of F2, both as signed 16-bit
Displacement(jump) ==
    IF jump[1] = 241 THEN S16(65280 + jump[2])
    ELSE S16(jump[2] + 256 * jump[3])

\* C5: a ']' that succeeds, with jump_pos = out_len before the back-jump and
\* offset = loop_start - (jump_pos + 3), emits F1 and the byte (offset+1) mod
\* 256 when -256 <= offset <= -1, and F2 and offset mod 2^16, low byte first,
\* otherwise; the offset of the byte after the instruction plus the encoded
\* displacement is loop_start; "[ c d ]3" on a fresh channel gives
\* F0 03 01 03 F1 FC.
C5_BackJumpEncoding ==
    LoopClosed =>
        LET loop_start == ClosedLevel.hole + 1
            jump_pos   == out_len(last.pre)
            offset     == loop_start - (jump_pos + 3)
        IN  /\ Emitted = IF offset >= -256 /\ offset <= -1
                         THEN <<241, (offset + 1) % 256>>
                         ELSE <<242, (offset % 65536) % 256,
                                     (offset % 65536) \div 256>>
            /\ out_len(c) + Displacement(Emitted) = loop_start
            /\ (last.pre.out = <<240, 0, 1, 3>> /\ last.arg = Dg(3)) =>
                   c.out = <<240, 3, 1, 3, 241, 252>>

\* C5 witness: a loop with the shortest body that needs the two-byte form
\* (254 bytes, offset -257) has just been closed
C5_Witness ==
    /\ LoopClosed
    /\ out_len(last.pre) - (ClosedLevel.hole + 1) = 254
    /\ Emitted = <<242, 255, 254>>

\* the word that follows the F3 of the loop the last ']' closed
BreakWord == c.out[ClosedLevel.f3 + 2] + 256 * c.out[ClosedLevel.f3 + 3]

\* C6 as stated: the word after F3 is jump_pos - (colon_pos + 3), with
\* jump_pos the offset of the F1/F2 opcode byte.
C6_BreakValueFromJumpPos ==
    (LoopClosed /\ ClosedLevel.colon) =>
        BreakWord = (out_len(last.pre) - (ClosedLevel.f3 + 3)) % 65536

\* C6, amended: when a ']' that succeeds closes a loop in which ':' was
\* compiled, the two bytes after that loop's F3 hold, low byte first,
\* out_len after the back-jump minus (colon_pos + 3): the distance from the
\* byte after the F3 instruction to the byte after the back-jump.
C6_BreakValueAfterBackJump ==
    (LoopClosed /\ ClosedLevel.colon) =>
        /\ c.out[ClosedLevel.f3 + 1] = 243
        /\ BreakWord = (out_len(c) - (ClosedLevel.f3 + 3)) % 65536

\* C6 witness: a loop with ':' and a body that needs the two-byte back-jump
\* has just been closed, the break being more than 255 bytes long
C6_Witness ==
    /\ LoopClosed
    /\ ClosedLevel.colon
    /\ Emitted[1] = 242
    /\ BreakWord > 255
    /\ BreakWord = out_len(c) - (ClosedLevel.f3 + 3)


(* ----------------------------------------------------------------------- *)
(* SpecTone: every key shift, octave, note letter and accidental.          *)
(* ----------------------------------------------------------------------- *)
MaxShift == 12
MaxToneStmts == 6

ToneShifts ==
    {Opd("", Dg(k)) : k \in 0 .. MaxShift} \cup {Opd("-", Dg(k)) : k \in 1 .. MaxShift}
ToneOctaves == {Dg(n) : n \in 1 .. 8}
ToneLetters == {"C", "D", "E", "F", "G", "A", "B"}
ToneNotes ==
    {NoteIn(l, a, NoLen, FALSE) : l \in ToneLetters, a \in {"", "#", "+", "-"}}
        \cup {NoteIn("R", "", NoLen, FALSE)}

InitTone == InitWith({CH_BUF_SIZE}, MaxToneStmts)

NextTone ==
    \/ BeginLine
    \/ Return
    \/ \E o \in ToneShifts : CmdKeyShift(o)
    \/ \E d \in ToneOctaves : CmdO(d)
    \/ \E n \in ToneNotes : Note(n)

SpecTone == InitTone /\ [][NextTone]_vars

(* ----------------------------------------------------------------------- *)
(* SpecOctave: what moves octave and octave_last: every key shift, the     *)
(* octave statements, notes that the shift carries across the octave       *)
(* boundary or not, rests, and loops with ':'.                             *)
(* ----------------------------------------------------------------------- *)
MaxOctaveStmts == 7

OctaveSets == {Dg(1), Dg(8)}
OctaveNotes ==
    {NoteIn(l, "", NoLen, FALSE) : l \in {"C", "F", "B", "R"}}

InitOctave == InitWith({CH_BUF_SIZE}, MaxOctaveStmts)

NextOctave ==
    \/ BeginLine
    \/ Return
    \/ \E o \in ToneShifts : CmdKeyShift(o)
    \/ \E d \in OctaveSets : CmdO(d)
    \/ CmdOctaveUp(NoDigits)
    \/ CmdOctaveDown(NoDigits)
    \/ \E n \in OctaveNotes : Note(n)
    \/ LoopOpen
    \/ LoopExit
    \/ LoopClose(Dg(2))

SpecOctave == InitOctave /\ [][NextOctave]_vars

\* the last statement was a note or rest that was compiled without error
NoteCompiled == last.op = "note" /\ last.err = MML_OK

\* the octave the last note is played in: the channel's, or one off when the
\* key shift has carried the tone over the octave
NoteOctave == note_pitch(last.pre, last.arg).octave

\* the last statement emitted an octave byte first
OctaveByteEmitted == Len(Emitted) > 0 /\ Emitted[1] \in 129 .. 136

\* C8 as stated: a note or rest emits the octave byte 0x80+n first exactly
\* when the channel's octave differs from octave_last, and octave_last
\* changes only when such a byte is emitted.
C8_OctaveByteIffChannelOctaveDiffers ==
    /\ NoteCompiled =>
          (OctaveByteEmitted <=> last.pre.octave # last.pre.octave_last)
    /\ (last.err = MML_OK /\ c.octave_last # last.pre.octave_last) =>
          (last.op = "note" /\ OctaveByteEmitted)

\* C8, amended: O, < and > emit nothing and change no field but octave; a
\* note or rest that is compiled emits the octave byte 0x80+n before its
\* header exactly when n, the octave the note is played in (the channel's
\* octave, one more or less when key_shift carries the tone over the octave
\* boundary), differs from octave_last, and leaves octave_last = n and octave
\* alone; apart from that octave_last changes only when ']' restores what ':'
\* saved.
C8_OctaveByteIffNoteOctaveDiffers ==
    /\ last.op \in {"O", ">", "<"} =>
          /\ Emitted = <<>>
          /\ [c EXCEPT !.octave = 0, !.error = MML_OK]
                = [last.pre EXCEPT !.octave = 0, !.error = MML_OK]
    /\ NoteCompiled =>
          /\ OctaveByteEmitted <=> NoteOctave # last.pre.octave_last
          /\ OctaveByteEmitted => Emitted[1] = 128 + NoteOctave /\ Emitted[2] < 128
          /\ ~OctaveByteEmitted => Emitted[1] < 128
          /\ c.octave_last = NoteOctave
          /\ c.octave = last.pre.octave
    /\ (last.err = MML_OK /\ c.octave_last # last.pre.octave_last) =>
          \/ last.op = "note" /\ OctaveByteEmitted
          \/ /\ last.op = "]" /\ ClosedLevel.colon
             /\ c.octave_last = ClosedLevel.snap[4]

\* C8 witness: with octave = octave_last a note that the key shift carries
\* into the next octave has emitted that octave's byte
C8_Witness ==
    /\ NoteCompiled
    /\ last.pre.octave = last.pre.octave_last
    /\ last.pre.key_shift = 1 /\ last.arg.note = "B"
    /\ NoteOctave = last.pre.octave + 1
    /\ Emitted = <<128 + NoteOctave, 1>>

\* the semitone of a note letter
BaseSemitone(l) ==
    CASE l = "C" -> 1 [] l = "D" -> 3 [] l = "E" -> 5 [] l = "F" -> 6
      [] l = "G" -> 8 [] l = "A" -> 10 [] l = "B" -> 12

\* the semitone of the last note with its accidental, clipped to 1..12, plus
\* the key shift
ShiftedTone ==
    LET t == BaseSemitone(last.arg.note)
               + (IF last.arg.acc \in {"#", "+"} THEN 1
                  ELSE IF last.arg.acc = "-" THEN -1 ELSE 0)
        clipped == IF t > 12 THEN 12 ELSE IF t < 1 THEN 1 ELSE t
    IN  clipped + last.pre.key_shift

\* the octave that goes with it
ShiftedOctave ==
    IF ShiftedTone > 12 THEN last.pre.octave + 1
    ELSE IF ShiftedTone < 1 THEN last.pre.octave - 1
    ELSE last.pre.octave

\* C10: the tone of a note is its base semitone plus or minus the accidental,
\* clipped to 1..12, plus key_shift, brought back into 1..12 by an octave up
\* or down; the low nibble of the header is that tone (0 for R, whatever the
\* key shift), and the note fails with NOTE_OVERFLOW, emitting nothing,
\* exactly when the adjusted octave leaves 1..8.
C10_ToneComputation ==
    (last.op = "note") =>
        IF last.arg.note = "R"
        THEN /\ last.err = MML_OK
             /\ Emitted[Len(Emitted)] % 16 = 0
             /\ NoteOctave = last.pre.octave
        ELSE IF ShiftedOctave \in 1 .. 8
        THEN /\ last.err = MML_OK
             /\ Emitted[Len(Emitted)] % 16 =
                   (IF ShiftedTone > 12 THEN ShiftedTone - 12
                    ELSE IF ShiftedTone < 1 THEN ShiftedTone + 12
                    ELSE ShiftedTone)
             /\ Emitted[Len(Emitted)] % 16 \in 1 .. 12
             /\ c.octave_last = ShiftedOctave
        ELSE /\ last.err = MML_ERR_NOTE_OVERFLOW
             /\ Emitted = <<>>
             /\ c.octave_last = last.pre.octave_last

\* C10 witness: "_12 o8 b": the B of octave 8 shifted by 12 has just been
\* refused with NOTE_OVERFLOW
C10_Witness ==
    /\ last.op = "note" /\ last.arg.note = "B" /\ last.arg.acc = ""
    /\ last.pre.key_shift = 12 /\ last.pre.octave = 8
    /\ last.err = MML_ERR_NOTE_OVERFLOW
    /\ Emitted = <<>>


(* ----------------------------------------------------------------------- *)
(* SpecNote: notes and rests with lengths of every encoding, after L and   *)
(* L+ statements; the longest length is a sum of LongTerms terms "%255",   *)
(* which mml_compile_line accepts in one string.                           *)
(* ----------------------------------------------------------------------- *)
LongTerms == 258
MaxNoteStmts == 6

NoteLengths ==
    { NoLen, LenN(8), LenN(2), LenPct(255),
      LenN(1) \o LenN(1) \o LenN(1), LenPct(255) \o LenPct(1),
      Repeat(Term(TRUE, "", Dg(255), 0), LongTerms) }
NoteLetters == {"C", "D", "R"}
NoteInputs ==
    {NoteIn(l, "", len, tie) : l \in NoteLetters, len \in NoteLengths,
                               tie \in BOOLEAN}
NoteDefaults == {LenN(8), <<Term(FALSE, "+", Dg(2), 0)>>}

InitNote == InitWith({CH_BUF_SIZE}, MaxNoteStmts)

NextNote ==
    \/ BeginLine
    \/ Return
    \/ \E t \in NoteDefaults : CmdL(t)
    \/ \E n \in NoteInputs : Note(n)

SpecNote == InitNote /\ [][NextNote]_vars

\* the resolved length of the last note
NoteLength == parse_length_96(last.pre, last.arg.len).len

\* the header and what follows it, without the octave byte
NoteBytes == IF OctaveByteEmitted THEN Tail(Emitted) ELSE Emitted

\* C9: a note or rest that is compiled, with resolved length L, emits a
\* header with bit 7 = 0, bit 6 = 1 exactly when it is followed by '&', low
\* nibble = tone, bits 5-4 = 00 if L = l_len96, else 01 if L = lp_len96, else
\* 10 if L <= 255, else 11; then no length byte for 00/01, the byte L for 10,
\* the two bytes of L, low byte first, for 11; "c&d" gives 41 03.
C9_NoteEncoding ==
    NoteCompiled =>
        LET header == NoteBytes[1]
            bits   == (header \div 16) % 4
            L      == NoteLength
        IN  /\ header < 128
            /\ ((header \div 64) % 2 = 1) <=> last.arg.tie
            /\ header % 16 = note_pitch(last.pre, last.arg).tone
            /\ bits = IF L = last.pre.l_len96 THEN 0
                      ELSE IF L = last.pre.lp_len96 THEN 1
                      ELSE IF L <= 255 THEN 2 ELSE 3
            /\ Tail(NoteBytes) = CASE bits \in {0, 1} -> <<>>
                                   [] bits = 2 -> <<L>>
                                   [] bits = 3 -> <<L % 256, L \div 256>>
            /\ (last.pre.out = <<65>> /\ last.arg = NoteIn("D", "", NoLen, FALSE)) =>
                   c.out = <<65, 3>>

\* C9 for the lengths that two bytes can hold: the encoding is as stated
\* whenever L <= 65535.
C9_NoteEncodingUpTo65535 ==
    (NoteCompiled /\ NoteLength > UINT16_MAX) \/ C9_NoteEncoding


(* ----------------------------------------------------------------------- *)
(* SpecLength: length specifications of every shape (digit strings up to   *)
(* and beyond 16 bits, '%', signs, dots, '^' sums short and long) given to *)
(* notes and to L, and the finish call.                                    *)
(* ----------------------------------------------------------------------- *)
FitTerms == 128
MaxLengthStmts == 4

LengthValues ==
    {0, 1, 3, 5, 96, 97, 255, 256, 65535, 65536, 65537, 65540, 65632}
PercentTerm == Term(TRUE, "", Dg(255), 0)
LengthSpecs ==
    {<<Term(p, "", Dg(v), 0)>> : p \in BOOLEAN, v \in LengthValues}
      \cup {<<Term(FALSE, "", Dg(v), k)>> :
                v \in {1, 3, 4, 8, 32}, k \in {1, 2, 3, 5, 6}}
      \cup {<<Term(TRUE, "", Dg(v), 1)>> : v \in {3, 254}}
      \cup {<<Term(p, sg, dg, 0)>> :
                p \in BOOLEAN, sg \in {"+", "-"}, dg \in {NoDigits, Dg(8)}}
      \cup { NoLen, LenN(8), <<Term(FALSE, "", NoDigits, 1)>>, <<Term(TRUE, "", NoDigits, 0)>>,
             LenN(4) \o LenN(8), LenN(1) \o LenN(1) \o LenN(1),
             LenN(4) \o <<Term(FALSE, "", Dg(32), 1)>>,
             Repeat(PercentTerm, FitTerms), Repeat(PercentTerm, FitTerms + 1),
             Repeat(PercentTerm, LongTerms) }
LengthNotes == {NoteIn("C", "", len, FALSE) : len \in LengthSpecs}

InitLength == InitWith({CH_BUF_SIZE}, MaxLengthStmts)

NextLength ==
    \/ BeginLine
    \/ Return
    \/ Finish
    \/ \E t \in LengthSpecs : CmdL(t)
    \/ \E n \in LengthNotes : Note(n)

SpecLength == InitLength /\ [][NextLength]_vars

\* the value a digit string denotes
RECURSIVE Decimal(_)
Decimal(digs) ==
    IF digs = <<>> THEN 0
    ELSE 10 * Decimal(SubSeq(digs, 1, Len(digs) - 1)) + digs[Len(digs)]

\* the last statement was a note whose length is one term "n" or "%n"
PlainLengthNote ==
    /\ last.op = "note"
    /\ Len(last.arg.len) = 1
    /\ last.arg.len[1].sign = "" /\ last.arg.len[1].dots = 0
    /\ last.arg.len[1].digs # NoDigits

\* C11: for every digit string the PARA value is the decimal value saturated
\* at 65535; "%n" is accepted only if the decimal value is in 1..255 and is
\* then the length; "n" is accepted only if the decimal value is one of
\* 1,2,3,4,6,8,12,16,24,32,48,96 and the length is then 96/n; every other
\* value is rejected with FUNC_RANGE.
C11_LengthValueValidation ==
    PlainLengthNote =>
        LET t == last.arg.len[1]
            d == Decimal(t.digs)
        IN  /\ parse_para(t).value = IF d > 65535 THEN 65535 ELSE d
            /\ IF t.pct /\ d \in 1 .. 255
               THEN last.err = MML_OK /\ NoteLength = d
               ELSE IF ~t.pct /\ d \in {1, 2, 3, 4, 6, 8, 12, 16, 24, 32, 48, 96}
               THEN last.err = MML_OK /\ NoteLength = 96 \div d
               ELSE last.err = MML_ERR_FUNC_RANGE


Pow2(k) == 2 ^ k

\* the last statement was a note or an L
LengthStmt == last.op \in {"note", "L"}

\* the terms of the last statement's length
LengthTermsOf == IF last.op = "note" THEN last.arg.len ELSE last.arg

\* a term whose number, if any, is a valid length value, and that has no
\* sign (the first term of an L may carry the '+' of "L+")
PlainTerm(i) ==
    LET t == LengthTermsOf[i]
        d == Decimal(t.digs)
    IN  /\ t.sign = "" \/ (last.op = "L" /\ i = 1 /\ t.sign = "+")
        /\ IF t.digs = NoDigits THEN ~t.pct /\ last.op = "note"
           ELSE IF t.pct THEN d \in 1 .. 255
           ELSE d \in {1, 2, 3, 4, 6, 8, 12, 16, 24, 32, 48, 96}

\* the base b of term i in ticks, and b + b/2 + ... + b/2^k
BaseOf(i) ==
    LET t == LengthTermsOf[i]
    IN  IF t.digs = NoDigits THEN last.pre.l_len96
        ELSE IF t.pct THEN Decimal(t.digs) ELSE 96 \div Decimal(t.digs)
DottedOf(i) ==
    LET k == LengthTermsOf[i].dots
    IN  (BaseOf(i) * (2 * Pow2(k) - 1)) \div Pow2(k)
DotsPlayable(i) == BaseOf(i) % Pow2(LengthTermsOf[i].dots) = 0

RECURSIVE SumOfTerms(_, _)
SumOfTerms(lo, hi) ==
    IF lo = hi THEN DottedOf(lo)
    ELSE SumOfTerms(lo, (lo + hi) \div 2) + SumOfTerms((lo + hi) \div 2 + 1, hi)

\* C12: in a note or an L whose terms are valid length values, a term of
\* base b with k dots is b + b/2 + ... + b/2^k; the statement is rejected
\* with FUNC_RANGE, emitting nothing, when some dot would split an odd half;
\* a term without a number has base l_len96; the terms joined by '^'
\* resolve to their sum, which a note emits (for sums up to 32767) and an L
\* of at most 255 ticks stores and emits.  "c4." and "c4^8" with l_len96 = 24
\* emit 21 24 (hex); "L96" sets 1 tick and "L1" sets 96.
C12_LengthArithmetic ==
    (LengthStmt /\ \A i \in 1 .. Len(LengthTermsOf) : PlainTerm(i)) =>
        LET n     == Len(LengthTermsOf)
            total == SumOfTerms(1, n)
            plus  == LengthTermsOf[1].sign = "+"
        IN  IF \E i \in 1 .. n : ~DotsPlayable(i)
            THEN /\ last.err = MML_ERR_FUNC_RANGE
                 /\ Emitted = <<>>
                 /\ c.l_len96 = last.pre.l_len96
            ELSE /\ parse_length_96(last.pre, LengthTermsOf) =
                        [ok |-> TRUE, len |-> total,
                         flag |-> parse_para(LengthTermsOf[1])]
                 /\ last.op = "note" =>
                      /\ last.err = MML_OK
                      /\ total <= 32767 =>
                           Tail(Emitted) =
                               IF total \in {last.pre.l_len96, last.pre.lp_len96}
                               THEN <<>>
                               ELSE IF total <= 255 THEN <<total>>
                               ELSE <<total % 256, total \div 256>>
                      /\ (last.pre.l_len96 = 24 /\
                          last.arg.len \in {<<Term(FALSE, "", Dg(4), 1)>>,
                                            LenN(4) \o LenN(8)}) =>
                             Emitted = <<33, 36>>
                 /\ last.op = "L" =>
                      IF total > 255 THEN last.err = MML_ERR_FUNC_RANGE
                      ELSE /\ last.err = MML_OK
                           /\ Emitted = <<IF plus THEN 247 ELSE 249, total>>
                           /\ IF plus THEN c.lp_len96 = total
                                      ELSE c.l_len96 = total
                           /\ (last.arg = LenN(96)) => c.l_len96 = 1
                           /\ (last.arg = LenN(1)) => c.l_len96 = 96

\* "c4." was compiled after an L changed the default, and emitted 21 24
C12_Witness ==
    /\ last.op = "note" /\ last.err = MML_OK
    /\ last.arg.len = <<Term(FALSE, "", Dg(4), 1)>>
    /\ last.pre.out # <<>> /\ last.pre.l_len96 # 24
    /\ Emitted = <<33, 36>>


\* C13: the total of every length specification, after dots and '^', is in
\* 1..32767: a note, rest or L with a total outside that range is rejected
\* with an error, so a note's two-byte length field holds the resolved total
\* and the total is at most 32767.
C13_TotalLengthBound ==
    (LengthStmt /\ last.err = MML_OK) =>
        LET total == parse_length_96(last.pre, LengthTermsOf).len
        IN  /\ total \in 1 .. 32767
            /\ (last.op = "note" /\ Len(Emitted) = 3) =>
                   /\ Emitted[2] + 256 * Emitted[3] = total
                   /\ Emitted[2] + 256 * Emitted[3] <= 32767


\* the last statement was L with the one term "n" or "%n" and k dots
DottedL(pct, n, k) ==
    last.op = "L" /\ last.arg = <<Term(pct, "", Dg(n), k)>>

\* the last statement was rejected with FUNC_RANGE, emitted nothing and
\* left l_len96 as it was
RejectedUnchanged ==
    /\ last.err = MML_ERR_FUNC_RANGE
    /\ Emitted = <<>>
    /\ c.l_len96 = last.pre.l_len96

\* C14 as stated: "L3." is rejected with FUNC_RANGE, emits no bytes and
\* leaves l_len96 unchanged.
C14_L3DotRejected == DottedL(FALSE, 3, 1) => RejectedUnchanged

\* C14: an L whose dot splits an odd number of ticks ("L32." with base 3,
\* "L%3.", and "L3......" whose sixth dot splits 1) is rejected with
\* FUNC_RANGE, emits no bytes and leaves l_len96 unchanged; "L3." itself has
\* the even base 32 and is accepted: l_len96 becomes 48 and F9 30 (hex) is
\* emitted.
C14_OddBaseDotRejected ==
    /\ (DottedL(FALSE, 32, 1) \/ DottedL(TRUE, 3, 1) \/ DottedL(FALSE, 3, 6))
           => RejectedUnchanged
    /\ DottedL(FALSE, 3, 1) =>
           /\ last.err = MML_OK
           /\ Emitted = <<249, 48>>
           /\ c.l_len96 = 48

\* "L32." was rejected on a channel whose default length an earlier L had
\* changed
C14_Witness ==
    /\ DottedL(FALSE, 32, 1)
    /\ last.pre.l_len96 # 24
    /\ RejectedUnchanged


\* the note "c" with its length omitted
PlainC == NoteIn("C", "", NoLen, FALSE)

\* C15: a fresh channel has l_len96 = 24, lp_len96 = 192, octave =
\* octave_last = 4, so "c" then finish gives exactly 01 FF.  "L<len>" with a
\* resolved length n in 1..255 sets l_len96 = n, leaves lp_len96 and emits
\* F9 n; "L+<len>" sets lp_len96 = n, leaves l_len96 and emits F7 n; L with
\* no value or with '-' is rejected.  A note with its length omitted emits
\* only its header, bits 5-4 = 00 ("L8 c" gives F9 0C 01).
C15_DefaultLengths ==
    /\ call = "init" =>
           /\ c.l_len96 = 24 /\ c.lp_len96 = 192
           /\ c.octave = 4 /\ c.octave_last = 4
    /\ (last.op = "note" /\ last.arg = PlainC /\ last.pre.out = <<>>
          /\ last.pre.l_len96 = 24) => c.out = <<1>>
    /\ (Finished /\ last.pre.out = <<1>>) => c.out = <<1, 255>> /\ ret = MML_OK
    /\ last.op = "L" =>
           LET t == last.arg[1]
               r == parse_length_96(last.pre, last.arg)
           IN  /\ (t.digs = NoDigits \/ t.sign = "-") => RejectedUnchanged
               /\ (t.digs # NoDigits /\ t.sign = "" /\ r.ok /\ r.len \in 1 .. 255) =>
                      /\ last.err = MML_OK
                      /\ c.l_len96 = r.len
                      /\ c.lp_len96 = last.pre.lp_len96
                      /\ Emitted = <<249, r.len>>
               /\ (t.digs # NoDigits /\ t.sign = "+" /\ r.ok /\ r.len \in 1 .. 255) =>
                      /\ last.err = MML_OK
                      /\ c.lp_len96 = r.len
                      /\ c.l_len96 = last.pre.l_len96
                      /\ Emitted = <<247, r.len>>
    /\ (last.op = "note" /\ last.arg.len = NoLen) =>
           /\ last.err = MML_OK
           /\ Len(Emitted) = 1
           /\ (Emitted[1] \div 16) % 4 = 0
           /\ (last.pre.out = <<249, 12>> /\ last.arg = PlainC) =>
                  c.out = <<249, 12, 1>>

\* "L8 c" and the finish call produced F9 0C 01 FF
C15_Witness == Finished /\ c.out = <<249, 12, 1, 255>>


(* ----------------------------------------------------------------------- *)
(* Claims about errors, checked under Spec                                 *)
(* ----------------------------------------------------------------------- *)
\* the loop level the last statement was compiled in
PreLevel == last.pre.nest_depth - 1

\* the loop instance the last ':' was compiled in already had its ':',
\* whose three bytes are in the output
EarlierExit ==
    /\ last.pre.nest_depth \in 1 .. MML_MAX_NEST
    /\ gl[PreLevel].colon
    /\ gl[PreLevel].f3 + 3 <= out_len(last.pre)

\* the last statement is one of the structural loop errors
StructuralError ==
    \/ last.op \in {":", "]"} /\ last.err = MML_ERR_OUT_OF_NEST
    \/ last.op = ":" /\ last.err = MML_ERR_DUP_EXIT
    \/ last.op \in {"J", "X"} /\ last.err = MML_ERR_RETURN_IN_NEST
    \/ last.op = "[" /\ last.pre.nest_depth >= MML_MAX_NEST

\* C16: ':' or ']' at nest_depth 0 fails with OUT_OF_NEST; a second ':' in
\* the same loop instance fails with DUP_EXIT, and DUP_EXIT is raised only
\* then (a ':' in a loop opened later at the same depth is accepted); J or X
\* at nest_depth > 0 fails with RETURN_IN_NEST; a '[' at nest_depth 4 is
\* rejected and a '[' at a smaller depth is not.  In each of these error
\* cases the statement emits no byte and nest_depth is 0 afterwards.
C16_StructuralLoopErrors ==
    /\ (last.op \in {":", "]"} /\ last.pre.nest_depth = 0) =>
           last.err = MML_ERR_OUT_OF_NEST
    /\ (last.op = ":" /\ EarlierExit) => last.err = MML_ERR_DUP_EXIT
    /\ (last.op = ":" /\ last.err = MML_ERR_DUP_EXIT) =>
           last.pre.nest_depth > 0 /\ gl[PreLevel].colon
    /\ (last.op \in {"J", "X"}) =>
           (last.pre.nest_depth > 0 <=> last.err = MML_ERR_RETURN_IN_NEST)
    /\ last.op = "[" =>
           IF last.pre.nest_depth >= MML_MAX_NEST
           THEN last.err = MML_ERR_FUNC_RANGE
           ELSE /\ last.err \in {MML_OK, MML_ERR_INTERNAL}
                /\ c.nest_depth = last.pre.nest_depth + 1
    /\ StructuralError =>
           /\ c.out = last.pre.out
           /\ c.nest_depth = 0

\* "[ : ]2 [ :" was compiled and the second loop's ':' was accepted
C16_Witness ==
    /\ last.op = ":" /\ last.err = MML_OK
    /\ last.pre.nest_depth = 1
    /\ out_len(last.pre) > 5 /\ last.pre.out[3] = 243

\* C17: whenever mml_finish_channel is called with nest_depth # 0 it
\* returns MML_ERR_CLOSE_NEST, whatever the last mml_compile_line returned,
\* and appends nothing; whenever it is called with nest_depth = 0 it appends
\* the single byte FF.
C17_FinishWithOpenLoop ==
    Finished =>
        IF last.pre.nest_depth # 0
        THEN ret = MML_ERR_CLOSE_NEST /\ c.out = last.pre.out
        ELSE c.out = Append(last.pre.out, 255)

\* the first half of C17 alone: the value returned with a loop open
C17_OpenLoopReturnsCloseNest ==
    (Finished /\ last.pre.nest_depth # 0) => ret = MML_ERR_CLOSE_NEST

\* mml_compile_line has returned an error
LineFailed == pc = "idle" /\ call = "compile" /\ ret # MML_OK

\* C18: in one mml_compile_line call, once a statement has set an error no
\* later statement of the line is compiled: the only step from there is the
\* return, which leaves the output and the channel state as the failing
\* statement left them and returns the error kind that statement recorded
\* first.
C18_FirstErrorWins ==
    /\ [][(pc = "line" /\ c.error # MML_OK) =>
             /\ pc' = "idle"
             /\ c' = c /\ last' = last /\ gl' = gl
             /\ ret' = last.err]_vars
    /\ [](LineFailed => (ret = c.error /\ ret = last.err))
    /\ []((pc = "line" /\ c.error # MML_OK) => c.error = last.err)

\* a line has returned the error of its second statement, with budget left
\* for further statements
C18_Witness ==
    /\ LineFailed
    /\ ret = MML_ERR_OCTAVE
    /\ last.pre.out # <<>>
    /\ nstmt >= 2


(* ----------------------------------------------------------------------- *)
(* SpecCmd: the simple commands with operands at, inside and outside the   *)
(* ends of their ranges, left out, signed, and beyond INT_MAX; a buffer    *)
(* with room and one that fills up.                                        *)
(* ----------------------------------------------------------------------- *)
CmdCap == 1
MaxCmdStmts == 4

\* the digit string "4294967296"
TwoPow32 == <<4, 2, 9, 4, 9, 6, 7, 2, 9, 6>>

CmdDigits ==
    { NoDigits, Dg(0), Dg(1), Dg(2), Dg(3), Dg(4), Dg(15), Dg(16), Dg(31),
      Dg(32), Dg(255), Dg(256), Dg(INT_MAX), TwoPow32 }
CmdOperands ==
    {Opd(sg, d) : sg \in {"", "+", "-"},
                  d \in {NoDigits, Dg(0), Dg(5), Dg(12), Dg(13), Dg(31), Dg(32)}}
        \cup {Opd("", d) : d \in CmdDigits}
CmdTempos ==
    {<<>>}
      \cup {<<Opd("", a)>> : a \in {NoDigits, Dg(1), Dg(256)}}
      \cup {<<Opd("", a), Opd(sg, b)>> :
                a \in {NoDigits, Dg(0), Dg(1), Dg(255), Dg(256)},
                b \in {NoDigits, Dg(0), Dg(255), Dg(256)},
                sg \in {"", "-"}}

InitCmd == InitWith({CmdCap, CH_BUF_SIZE}, MaxCmdStmts)

NextCmd ==
    \/ BeginLine
    \/ Return
    \/ \E d \in CmdDigits : CmdV(d)
    \/ \E d \in CmdDigits : CmdVolumeUp(d)
    \/ \E d \in CmdDigits : CmdVolumeDown(d)
    \/ \E d \in CmdDigits : CmdI(d)
    \/ \E d \in CmdDigits : CmdQ(d)
    \/ \E d \in CmdDigits : CmdP(d)
    \/ \E a \in CmdTempos : CmdT(a)
    \/ \E o \in CmdOperands : CmdW(o)
    \/ \E o \in CmdOperands : CmdKeyShift(o)
    \/ CmdN

SpecCmd == InitCmd /\ [][NextCmd]_vars

\* the digit string digs is present and denotes a value in lo..hi (every
\* range here ends below 10000, and no input has leading zeros)
InRange(digs, lo, hi) ==
    /\ digs # NoDigits
    /\ Len(digs) <= 4
    /\ Decimal(digs) \in lo .. hi

\* the last statement was accepted and emitted exactly bytes, or the buffer
\* had no room for them
Accepted(bytes) ==
    IF out_len(last.pre) + Len(bytes) <= last.pre.out_cap
    THEN last.err = MML_OK /\ Emitted = bytes
    ELSE last.err = MML_ERR_INTERNAL

\* the last statement was rejected with FUNC_RANGE and emitted nothing
Rejected == last.err = MML_ERR_FUNC_RANGE /\ Emitted = <<>>

\* a command with one unsigned operand in lo..hi (dflt when left out and a
\* default exists) that emits bytes(n)
OneOperand(lo, hi, dflt, bytes(_)) ==
    LET digs == IF last.arg = NoDigits THEN dflt ELSE last.arg
    IN  IF InRange(digs, lo, hi) THEN Accepted(bytes(Decimal(digs)))
        ELSE Rejected

StmtCap == 2
MaxStmtStmts == 6

StmtNotes ==
    { NoteIn("C", "", NoLen, FALSE), NoteIn("B", "", NoLen, FALSE),
      NoteIn("B", "", LenN(5), FALSE),
      NoteIn("C", "", <<Term(FALSE, "-", Dg(8), 0)>>, FALSE) }
StmtOctaves == {NoDigits, Dg(8), Dg(9)}
StmtOctaveSteps == {NoDigits, Dg(8)}
StmtLengths ==
    { LenN(8), LenN(5), <<Term(FALSE, "+", Dg(4), 0)>>,
      <<Term(FALSE, "-", Dg(8), 0)>>, <<Term(FALSE, "", Dg(32), 1)>> }
StmtShifts == {Opd("", Dg(1)), Opd("-", Dg(13))}
StmtVolumes == {Dg(1), Dg(16)}
StmtTempos == {<<Opd("", Dg(1))>>, <<Opd("", Dg(1)), Opd("", Dg(256))>>}
StmtVibratos ==
    { [pct |-> TRUE, args |-> <<Opd("-", Dg(128))>>],
      [pct |-> FALSE, args |-> <<Opd("", Dg(1)), Opd("", Dg(2)), Opd("", Dg(3))>>] }
StmtEnvelopes ==
    { <<Opd("", Dg(1)), Opd("", Dg(2)), Opd("", Dg(3)), Opd("", Dg(4))>> }
StmtDetunes ==
    { [pct |-> FALSE, opd |-> Opd("", Dg(1))],
      [pct |-> TRUE, opd |-> Opd("", Dg(128))] }
StmtNoises == {Opd("", Dg(32)), Opd("-", Dg(32))}
StmtCounts == {NoDigits, Dg(1), Dg(2)}

InitStmt == InitWith({StmtCap, CH_BUF_SIZE}, MaxStmtStmts)

NextStmt ==
    \/ BeginLine
    \/ Return
    \/ Newline
    \/ \E n \in StmtNotes : Note(n)
    \/ \E d \in StmtOctaves : CmdO(d)
    \/ \E d \in StmtOctaveSteps : CmdOctaveUp(d)
    \/ \E d \in StmtOctaveSteps : CmdOctaveDown(d)
    \/ \E t \in StmtLengths : CmdL(t)
    \/ \E o \in StmtShifts : CmdKeyShift(o)
    \/ \E d \in StmtVolumes : CmdV(d)
    \/ CmdVolumeUp(Dg(0))
    \/ CmdVolumeDown(Dg(16))
    \/ CmdI(Dg(256))
    \/ CmdQ(NoDigits)
    \/ CmdP(Dg(4))
    \/ \E a \in StmtTempos : CmdT(a)
    \/ \E m \in StmtVibratos : CmdM(m)
    \/ \E a \in StmtEnvelopes : CmdS(a)
    \/ \E u \in StmtDetunes : CmdU(u)
    \/ \E o \in StmtNoises : CmdW(o)
    \/ CmdN
    \/ CmdJ
    \/ CmdX
    \/ CmdUnknown
    \/ Comment
    \/ LoopOpen
    \/ LoopExit
    \/ \E d \in StmtCounts : LoopClose(d)

SpecStmt == InitStmt /\ [][NextStmt]_vars

\* the last step compiled a statement, which failed with an error other
\* than INTERNAL
ValidationError ==
    /\ last.op \notin {"init", "finish"}
    /\ last.err \notin {MML_OK, MML_ERR_INTERNAL}

\* C19: a statement that fails with an error other than INTERNAL emits no
\* byte and changes no byte already emitted (the output is what it was
\* before the statement), and leaves l_len96, lp_len96, octave, octave_last
\* and key_shift unchanged.
C19_StatementAtomicity ==
    ValidationError =>
        /\ c.out = last.pre.out
        /\ c.l_len96 = last.pre.l_len96
        /\ c.lp_len96 = last.pre.lp_len96
        /\ c.octave = last.pre.octave
        /\ c.octave_last = last.pre.octave_last
        /\ c.key_shift = last.pre.key_shift

\* "]1" was rejected inside a loop, after an L that changed the default
\* length and emitted bytes
C19_Witness ==
    /\ ValidationError
    /\ last.op = "]" /\ last.err = MML_ERR_FUNC_RANGE
    /\ last.pre.out # <<>> /\ last.pre.l_len96 # 24


(* ----------------------------------------------------------------------- *)
(* SpecSigned: the commands with signed operands (M, M%, U%, U+/-, W+/-,   *)
(* W) with values at, inside and outside the ends of their ranges, with    *)
(* each sign and with none.                                                *)
(* ----------------------------------------------------------------------- *)
SignedCap == 1
MaxSignedStmts == 4

SignedDigits ==
    {NoDigits, Dg(0), Dg(1), Dg(5), Dg(31), Dg(32), Dg(127), Dg(128), Dg(255)}
SignedOperands == {Opd(sg, d) : sg \in {"", "+", "-"}, d \in SignedDigits}
SignedVibratos ==
    {[pct |-> TRUE, args |-> <<o>>] : o \in SignedOperands}
      \cup {[pct |-> FALSE,
             args |-> <<Opd("", Dg(1)), Opd("", Dg(2)), Opd("", Dg(3)), o>>] :
                o \in SignedOperands}
      \cup {[pct |-> FALSE,
             args |-> <<Opd("", Dg(255)), Opd("", Dg(0)), Opd("", Dg(7)), o>>] :
                o \in SignedOperands}
      \cup {[pct |-> FALSE, args |-> <<Opd("", Dg(1)), Opd("", Dg(2)), Opd("", Dg(3))>>]}
SignedDetunes == {[pct |-> p, opd |-> o] : p \in BOOLEAN, o \in SignedOperands}

InitSigned == InitWith({SignedCap, CH_BUF_SIZE}, MaxSignedStmts)

NextSigned ==
    \/ BeginLine
    \/ Return
    \/ \E m \in SignedVibratos : CmdM(m)
    \/ \E u \in SignedDetunes : CmdU(u)
    \/ \E o \in SignedOperands : CmdW(o)

SpecSigned == InitSigned /\ [][NextSigned]_vars

\* the value an operand with digits denotes
OperandValue(o) ==
    IF o.sign = "-" THEN 0 - Decimal(o.digs) ELSE Decimal(o.digs)

\* an operand is present and its value is in lo..hi
OperandIn(o, lo, hi) == o.digs # NoDigits /\ OperandValue(o) \in lo .. hi

\* s(n): bit 7 is the sign, bits 6-0 the magnitude
SignMagnitude(n) == IF n >= 0 THEN n ELSE 128 + (0 - n)

\* C21: "M n1,n2,n3,n4" (n1..n3 bytes) is accepted only when n4 is in
\* -127..127 and then emits F5 n1 n2 n3 s(n4); an n4 outside -127..127 is
\* rejected with FUNC_RANGE and emits nothing, as "M% n" rejects n outside
\* -127..127.
C21_VibratoFourthParameter ==
    /\ (last.op = "M" /\ ~last.arg.pct /\ Len(last.arg.args) = 4) =>
           LET a == last.arg.args
           IN  IF OperandIn(a[4], -127, 127)
               THEN Accepted(<<245, Decimal(a[1].digs), Decimal(a[2].digs),
                               Decimal(a[3].digs),
                               SignMagnitude(OperandValue(a[4]))>>)
               ELSE Rejected
    /\ (last.op = "M" /\ last.arg.pct) =>
           (~OperandIn(last.arg.args[1], -127, 127) => Rejected)

\* an operand that carries a '+' or a '-'
Signed(o) == o.sign \in {"+", "-"}

\* C22: for n in -127..127, "M% n" emits FD s(n) and "U% n" emits FB s(n),
\* s being sign-magnitude; "U+n"/"U-n" with value v in -127..127 emits FC
\* and v mod 256, "W+n"/"W-n" with v in -31..31 emits EC and v mod 256;
\* values outside these ranges are rejected with FUNC_RANGE.
C22_SignedByteEncodings ==
    /\ (last.op = "M" /\ last.arg.pct) =>
           LET o == last.arg.args[1]
           IN  IF OperandIn(o, -127, 127)
               THEN Accepted(<<253, SignMagnitude(OperandValue(o))>>)
               ELSE Rejected
    /\ (last.op = "U" /\ last.arg.pct) =>
           LET o == last.arg.opd
           IN  IF OperandIn(o, -127, 127)
               THEN Accepted(<<251, SignMagnitude(OperandValue(o))>>)
               ELSE Rejected
    /\ (last.op = "U" /\ ~last.arg.pct /\ Signed(last.arg.opd)) =>
           LET o == last.arg.opd
           IN  IF OperandIn(o, -127, 127)
               THEN Accepted(<<252, OperandValue(o) % 256>>)
               ELSE Rejected
    /\ (last.op = "W" /\ Signed(last.arg)) =>
           IF OperandIn(last.arg, -31, 31)
           THEN Accepted(<<236, OperandValue(last.arg) % 256>>)
           ELSE Rejected

\* "M%-127 U-127" was compiled: FD FF, then FC 81
C22_Witness ==
    /\ last.op = "U" /\ ~last.arg.pct /\ last.err = MML_OK
    /\ last.pre.out = <<253, 255>>
    /\ Emitted = <<252, 129>>

\* C23: at nest_depth 0, X emits exactly E9 and the rest of the line (up to
\* a '\n' or the end of the string) is discarded: no statement is compiled
\* until the next line begins.  The channel is not stopped: a note compiled
\* next, on a later line, is accepted and appended after the E9.
C23_StopStatement ==
    /\ []((last.op = "X" /\ last.pre.nest_depth = 0) => Accepted(<<233>>))
    /\ [][(last'.op = "X" /\ nstmt' < nstmt /\ c.nest_depth = 0) =>
              pc' = "skip"]_vars
    /\ [][pc = "skip" =>
              (c' = c /\ last' = last /\ nstmt' = nstmt
                 /\ pc' \in {"idle", "line"})]_vars
    /\ []((last.op = "note" /\ last.arg = PlainC /\ last.pre.key_shift = 0
             /\ out_len(last.pre) > 0
             /\ last.pre.out[out_len(last.pre)] = 233
             /\ out_len(last.pre) + 2 <= last.pre.out_cap) =>
              /\ last.err = MML_OK
              /\ out_len(c) > out_len(last.pre)
              /\ SubSeq(c.out, 1, out_len(last.pre)) = last.pre.out)

\* "X" on one line and "c" on the next gave E9 01
C23_Witness ==
    /\ last.op = "note" /\ last.err = MML_OK
    /\ last.pre.out = <<233>>
    /\ c.out = <<233, 1>>


(* ----------------------------------------------------------------------- *)
(* The driver (main.c): three channels, the line loop, the finish loop,    *)
(* the object file                                                         *)
(* ----------------------------------------------------------------------- *)
PSG_NCH == 3
CH1_START_OFFSET == 8
\* ch_offset[i]: CH1_ADDR_OFFSET, CH2_ADDR_OFFSET, CH3_ADDR_OFFSET
ch_offset(i) == 2 * i

\* a statement of a line, as compile_statement dispatches it
St(op, arg) == [op |-> op, arg |-> arg]
compile_statement(ch, st) ==
    CASE st.op = "note" -> compile_note(ch, st.arg)
      [] st.op = "N"    -> cmd_N(ch)
      [] st.op = "O"    -> cmd_O(ch, st.arg)
      [] st.op = "["    -> cmd_loop_open(ch)
      [] st.op = "]"    -> cmd_loop_close(ch, st.arg)
      [] st.op = "run"  -> compile_run(ch, st.arg)
      [] OTHER          -> cmd_unknown(ch)

\* the while loop of mml_compile_line from statement i on
RECURSIVE compile_statements(_, _, _)
compile_statements(ch, stmts, i) ==
    IF i > Len(stmts) \/ ch.error # MML_OK THEN ch
    ELSE compile_statements(compile_statement(ch, stmts[i]), stmts, i + 1)

\* mml_compile_line on the statements of a line: the channel afterwards and
\* the value returned
returned(c1) == [c |-> c1, ret |-> c1.error]
mml_compile_line(ch, stmts) ==
    returned(compile_statements(compile_line_begin(ch), stmts, 1))

\* what fwrite has not been given yet
NoFile == [opened |-> FALSE, written |-> FALSE]

\* main() up to the line loop: -b base parsed, three channels initialised
\* on buffers of CH_BUF_SIZE bytes; lines is the budget of lines to read
Driver0(base, lines) ==
    [phase |-> "read", baseaddr |-> base,
     psgch |-> [i \in 0 .. PSG_NCH - 1 |-> Chan0(CH_BUF_SIZE)],
     abort |-> FALSE, x_disabled |-> FALSE,
     i |-> 0, exit |-> "running", file |-> NoFile,
     calls |-> <<>>, line |-> <<>>, nlines |-> lines]

\* the index of the channel a line's first letter names, PSG_NCH if none
channel_of(letter) ==
    CASE letter = "D" -> 0 [] letter = "E" -> 1 [] letter = "F" -> 2
      [] OTHER -> PSG_NCH

\* the line loop after mml_compile_line has returned r on channel i: the
\* error is reported and abort set
line_compiled(d, i, r) ==
    [d EXCEPT !.psgch[i] = r.c,
              !.abort = @ \/ r.ret # MML_OK,
              !.calls = Append(@, [call |-> "compile", ch |-> i,
                                   ret |-> r.ret])]

\* a line loop that leaves a channel letter's line alone once abort is set
read_line_stops_after_error(d, line) ==
    LET i  == channel_of(line.letter)
        d1 == IF ~d.x_disabled /\ i < PSG_NCH /\ ~d.abort
              THEN line_compiled(d, i, mml_compile_line(d.psgch[i], line.stmts))
              ELSE d
    IN  [d1 EXCEPT !.x_disabled = IF line.letter = "X" THEN ~@ ELSE @,
                   !.line = line,
                   !.nlines = @ - 1]

\* one turn of the line loop on line = [letter, stmts]
read_line(d, line) ==
    LET i  == channel_of(line.letter)
        d1 == IF ~d.x_disabled /\ i < PSG_NCH
              THEN line_compiled(d, i, mml_compile_line(d.psgch[i], line.stmts))
              ELSE d
    IN  [d1 EXCEPT !.x_disabled = IF line.letter = "X" THEN ~@ ELSE @,
                   !.line = line,
                   !.nlines = @ - 1]

\* one turn of the loop that finishes the channels
channel_finished(d, r) ==
    [d EXCEPT !.psgch[d.i] = r.c,
              !.abort = @ \/ r.ret # MML_OK,
              !.calls = Append(@, [call |-> "finish", ch |-> d.i,
                                   ret |-> r.ret]),
              !.i = @ + 1]
finish_channel(d) == channel_finished(d, mml_finish_channel(d.psgch[d.i]))

\* psgch[i].offset, a uint16_t: 8, then the previous offset plus the
\* previous channel's out_len
RECURSIVE channel_offset(_, _)
channel_offset(d, i) ==
    IF i = 0 THEN CH1_START_OFFSET
    ELSE U16(channel_offset(d, i - 1) + out_len(d.psgch[i - 1]))

totallen(d) ==
    channel_offset(d, PSG_NCH - 1) + out_len(d.psgch[PSG_NCH - 1])

\* a store of the turns 0..n-1 of the copy loop falls outside the
\* totallen bytes that malloc returned
RECURSIVE copy_overflows(_, _)
copy_overflows(d, n) ==
    IF n = 0 THEN FALSE
    ELSE \/ copy_overflows(d, n - 1)
         \/ ch_offset(n - 1) + 2 > totallen(d)
         \/ channel_offset(d, n - 1) + out_len(d.psgch[n - 1]) > totallen(d)

\* outbuf[k] after the turns 0..n-1 of the copy loop (each turn: put_word_le
\* of the channel's address, then memcpy of its bytecode); junk is what the
\* bytes malloc returned happen to hold
RECURSIVE outbuf_byte(_, _, _, _)
outbuf_byte(d, junk, n, k) ==
    IF n = 0 THEN junk[(k % 2) + 1]
    ELSE LET i    == n - 1
             off  == channel_offset(d, i)
             word == U16(d.baseaddr + off)
         IN  IF k >= off /\ k < off + out_len(d.psgch[i])
             THEN d.psgch[i].out[k - off + 1]
             ELSE IF k = ch_offset(i) THEN word % 256
             ELSE IF k = ch_offset(i) + 1 THEN word \div 256
             ELSE outbuf_byte(d, junk, i, k)

\* the object file once fwrite has returned: its length and, through
\* FileByte, its bytes
written_file(d, junk) ==
    [opened |-> TRUE, written |-> TRUE, len |-> totallen(d), junk |-> junk]

\* the driver starts: the library variables stay at their initial values,
\* the channels live in drv
InitDriverWith(bases, lines) ==
    /\ c = Chan0(CH_BUF_SIZE)
    /\ pc = "idle"
    /\ ret = MML_OK
    /\ call = "init"
    /\ last = [op |-> "init", arg |-> <<>>, pre |-> c, err |-> MML_OK]
    /\ gl = [i \in 0 .. MML_MAX_NEST - 1 |-> GhostLoop0]
    /\ nstmt = 0
    /\ drv \in {Driver0(b, lines) : b \in bases}

Library == <<c, pc, ret, call, last, gl, nstmt>>

\* fgets returned a line
ReadLine(line) ==
    /\ drv.phase = "read"
    /\ drv.nlines > 0
    /\ drv' = read_line(drv, line)
    /\ UNCHANGED Library

\* fgets returned NULL: fclose, on to the loop that finishes the channels
EndOfFile ==
    /\ drv.phase = "read"
    /\ drv' = [drv EXCEPT !.phase = "finish", !.i = 0]
    /\ UNCHANGED Library

FinishChannel ==
    /\ drv.phase = "finish"
    /\ drv.i < PSG_NCH
    /\ drv' = finish_channel(drv)
    /\ UNCHANGED Library

\* the test of abort after the finish loop: errx(EXIT_FAILURE) or go on
CheckAbort ==
    /\ drv.phase = "finish"
    /\ drv.i = PSG_NCH
    /\ drv' = IF drv.abort
              THEN [drv EXCEPT !.phase = "exit", !.exit = "failure"]
              ELSE [drv EXCEPT !.phase = "output"]
    /\ UNCHANGED Library

\* fopen, the offsets, malloc, the copy loop, fwrite, exit.  fopen or malloc
\* may fail (errx).  A copy that runs past the allocation is undefined: the
\* run may die there, leaving the opened file empty, or go on.
WriteObject(junk, fate) ==
    /\ drv.phase = "output"
    /\ fate \in {"written", "nofile", "nomem"}
              \cup (IF copy_overflows(drv, PSG_NCH) THEN {"crash"} ELSE {})
    /\ drv' = CASE fate = "written" ->
                     [drv EXCEPT !.phase = "exit", !.exit = "success",
                                 !.file = written_file(drv, junk)]
                [] fate = "nofile" ->
                     [drv EXCEPT !.phase = "exit", !.exit = "failure"]
                [] fate = "nomem" ->
                     [drv EXCEPT !.phase = "exit", !.exit = "failure",
                                 !.file = [opened |-> TRUE, written |-> FALSE]]
                [] fate = "crash" ->
                     [drv EXCEPT !.phase = "exit", !.exit = "crash",
                                 !.file = [opened |-> TRUE, written |-> FALSE]]
    /\ UNCHANGED Library

\* byte k of the written file
FileByte(k) == outbuf_byte(drv, drv.file.junk, PSG_NCH, k)

(* ----------------------------------------------------------------------- *)
(* SpecDriver: runs of the driver over a few short lines for the three     *)
(* channels, lines that toggle X and lines that name no channel.           *)
(* ----------------------------------------------------------------------- *)
MaxLines == 3

DriverBases == {0, 65535}
JunkBytes == {0, 165}
Fates == {"written", "nofile", "nomem", "crash"}
LineBodies ==
    { <<St("N", <<>>)>>, <<St("note", PlainC)>>, <<St("[", <<>>)>>,
      <<St("?", <<>>), St("N", <<>>)>> }
DriverLines ==
    {[letter |-> l, stmts |-> b] : l \in {"D", "E", "F"}, b \in LineBodies}
      \cup {[letter |-> l, stmts |-> <<St("N", <<>>)>>] : l \in {"X", ";"}}

InitDriver == InitDriverWith(DriverBases, MaxLines)

NextDriver ==
    \/ \E line \in DriverLines : ReadLine(line)
    \/ EndOfFile
    \/ FinishChannel
    \/ CheckAbort
    \/ \E j \in JunkBytes \X JunkBytes, f \in Fates : WriteObject(j, f)

SpecDriver == InitDriver /\ [][NextDriver]_vars


(* ----------------------------------------------------------------------- *)
(* SpecObject: runs of the driver whose channels are filled by long runs   *)
(* of N statements, up to the whole channel buffer, for base addresses at  *)
(* both ends of the 16-bit range.                                          *)
(* ----------------------------------------------------------------------- *)
FullRun == 32767
NearRun == 32759
MaxObjectLines == 3

ObjectBases == {0, 65535}
ObjectRuns == {NearRun, FullRun}
ObjectJunk == {<<165, 90>>}

\* the input files give the channels their runs in turn: D, E, F, D, ...
ObjectLetter(d) == <<"D", "E", "F">>[((MaxObjectLines - d.nlines) % PSG_NCH) + 1]

\* the lines that hold, in all, k statements N for one channel (a line has
\* at most 398 of them), read one after the other
ReadRun(k) ==
    ReadLine([letter |-> ObjectLetter(drv), stmts |-> <<St("run", k)>>])

InitObject == InitDriverWith(ObjectBases, MaxObjectLines)

NextObject ==
    \/ \E k \in ObjectRuns : ReadRun(k)
    \/ EndOfFile
    \/ FinishChannel
    \/ CheckAbort
    \/ \E j \in ObjectJunk, f \in Fates : WriteObject(j, f)

SpecObject == InitObject /\ [][NextObject]_vars

\* the length of channel i's bytecode, and where the claim places it
ChannelLen(i) == out_len(drv.psgch[i])
RECURSIVE Placement(_)
Placement(i) == IF i = 0 THEN 8 ELSE Placement(i - 1) + ChannelLen(i - 1)

\* the first, the middle and the last index of a channel of l bytes
SampleIndexes(l) == IF l = 0 THEN {} ELSE {0, l \div 2, l - 1}

\* the written file is laid out as claimed
ObjectLayout ==
    /\ drv.file.len = Placement(PSG_NCH)
    /\ \A i \in 0 .. PSG_NCH - 1 :
          /\ FileByte(2 * i) + 256 * FileByte(2 * i + 1)
                 = (drv.baseaddr + Placement(i)) % 65536
          /\ \A k \in SampleIndexes(ChannelLen(i)) :
                 FileByte(Placement(i) + k) = drv.psgch[i].out[k + 1]

\* C24: for every base in 0..65535 and all channel lengths the compiler can
\* produce, the written file has length 8+len1+len2+len3, its bytes 0-1,
\* 2-3, 4-5 are the little-endian 16-bit values of base+8, base+8+len1,
\* base+8+len1+len2, and the bytecode of channels 1, 2, 3 is at file offsets
\* 8, 8+len1, 8+len1+len2; and the run that writes it ends normally.
C24_ObjectFileLayout ==
    /\ drv.file.written => ObjectLayout
    /\ drv.exit # "crash"

\* C24 for the runs in which 8+len1+len2 fits 16 bits
C24_LayoutUpTo65535 ==
    (drv.phase = "exit" /\ drv.exit \in {"success", "crash"}
       /\ Placement(2) <= UINT16_MAX) =>
        /\ drv.exit = "success"
        /\ ObjectLayout


\* C25: in every object file the driver writes, the bytes at file offsets 6
\* and 7 (the unused header word) are zero.
C25_UnusedHeaderWordZero ==
    drv.file.written => (FileByte(6) = 0 /\ FileByte(7) = 0)

\* some compile or finish call of this run returned an error
AnyCallFailed == \E k \in DOMAIN drv.calls : drv.calls[k].ret # MML_OK

\* the finish calls made so far, by channel
FinishedChannels ==
    {drv.calls[k].ch : k \in {j \in DOMAIN drv.calls :
                                 drv.calls[j].call = "finish"}}

\* C26: if any mml_compile_line or mml_finish_channel call returned an error
\* the driver never opens or writes the output file and exits non-zero; a
\* line that fails on one channel does not stop later lines from being
\* compiled (a line for channel D, E or F read while X has not disabled
\* compilation is compiled on its channel whatever failed before); and all
\* three channels are finished before the decision is taken.
C26_OutputSuppression ==
    /\ [](AnyCallFailed =>
            /\ ~drv.file.opened
            /\ drv.phase \notin {"output"}
            /\ drv.phase = "exit" => drv.exit = "failure")
    /\ [][(drv.phase = "read" /\ drv'.nlines < drv.nlines
             /\ ~drv.x_disabled /\ channel_of(drv'.line.letter) < PSG_NCH) =>
              /\ Len(drv'.calls) = Len(drv.calls) + 1
              /\ drv'.calls[Len(drv'.calls)].call = "compile"
              /\ drv'.calls[Len(drv'.calls)].ch = channel_of(drv'.line.letter)
              /\ drv'.calls[Len(drv'.calls)].ret =
                     mml_compile_line(drv.psgch[channel_of(drv'.line.letter)],
                                      drv'.line.stmts).ret]_vars
    /\ [](drv.phase \in {"output", "exit"} =>
              FinishedChannels = 0 .. PSG_NCH - 1)

\* a line failed on D, later lines were compiled on E and F, the three
\* channels were finished and the run ended in failure with no file
C26_Witness ==
    /\ drv.phase = "exit" /\ drv.exit = "failure" /\ ~drv.file.opened
    /\ Len(drv.calls) = 6
    /\ drv.calls[1] = [call |-> "compile", ch |-> 0, ret |-> MML_ERR_SYNTAX]
    /\ drv.calls[2] = [call |-> "compile", ch |-> 1, ret |-> MML_OK]
    /\ drv.calls[3] = [call |-> "compile", ch |-> 2, ret |-> MML_OK]
    /\ \A k \in 4 .. 6 : drv.calls[k] = [call |-> "finish", ch |-> k - 4, ret |-> MML_OK]
    /\ out_len(drv.psgch[1]) = 2 /\ out_len(drv.psgch[2]) = 2


(* ----------------------------------------------------------------------- *)
(* The error state from one line to the next (checked under Spec)          *)
(* ----------------------------------------------------------------------- *)
\* mml_compile_line is entered
LineEntered == pc = "idle" /\ pc' = "line"

\* C27 as stated: an error once recorded is sticky; a later mml_compile_line
\* call on the channel does not clear it and compiles no further statement.
C27_StickyError ==
    /\ [][(LineEntered /\ c.error # MML_OK) => c'.error = c.error]_vars
    /\ [][(pc = "line" /\ ret # MML_OK /\ call = "compile") =>
              (c' = c /\ last' = last)]_vars

\* C27, as the code has it: the error state is reset at the start of every
\* line, recorded error or not, and nothing else of the channel changes
\* there; the statements of a line that follows a failed line are compiled
\* from the state the failed line left, and the value a line returns is the
\* error state of that line alone.
C27_ErrorResetEveryLine ==
    /\ [][LineEntered =>
              /\ c'.error = MML_OK
              /\ [c' EXCEPT !.error = c.error, !.drop = c.drop] = c]_vars
    /\ [][(pc = "line" /\ ret # MML_OK /\ last' # last) =>
              /\ last'.pre = c
              /\ c.error = MML_OK
              /\ c'.error = last'.err]_vars
    /\ []((pc = "idle" /\ call = "compile") => ret = c.error)

\* the line before returned an error and a statement of this line has been
\* compiled and has emitted bytes
C27_Witness ==
    /\ pc = "line" /\ call = "compile"
    /\ ret # MML_OK
    /\ last.err = MML_OK /\ c.error = MML_OK
    /\ last.pre.error = MML_OK
    /\ out_len(c) > out_len(last.pre)


(* ----------------------------------------------------------------------- *)
(* SpecSign: notes and rests whose length terms carry '+' or '-', before   *)
(* the first term and before terms that follow '^', after an accidental    *)
(* or without one.                                                         *)
(* ----------------------------------------------------------------------- *)
MaxSignStmts == 3

SignTerms ==
    {Term(p, sg, dg, 0) : p \in BOOLEAN, sg \in {"", "+", "-"},
                          dg \in {NoDigits, Dg(4), Dg(8)}}
SignLengths ==
    {<<t>> : t \in SignTerms}
      \cup {<<Term(FALSE, "", Dg(4), 0), t>> : t \in SignTerms}
\* a rest takes no accidental: a sign after "r" belongs to its length
SignNotes ==
    {NoteIn("R", "", len, FALSE) : len \in SignLengths}
      \cup {NoteIn("C", acc, len, FALSE) :
               acc \in {"", "+", "-"}, len \in SignLengths}

InitSign == InitWith({CH_BUF_SIZE}, MaxSignStmts)

NextSign ==
    \/ BeginLine
    \/ Return
    \/ \E n \in SignNotes : Note(n)

SpecSign == InitSign /\ [][NextSign]_vars

\* the last statement was a note or rest with a sign before length term i
SignBefore(i) ==
    /\ last.op = "note"
    /\ i <= Len(last.arg.len)
    /\ last.arg.len[i].sign # ""

\* C28: a note or rest whose length specification carries a '+' or '-' sign
\* is rejected with FUNC_RANGE and emits nothing, whether the sign stands
\* before the first length term ("r+4") or before a term that follows '^'
\* ("r4^-8").
C28_SignedLengthRejected ==
    (\E i \in 1 .. 2 : SignBefore(i)) => Rejected

\* C28 for a sign before the first term
C28_FirstTermSignRejected == SignBefore(1) => Rejected


(* ----------------------------------------------------------------------- *)
(* The state a loop body is re-entered under (checked under Spec)          *)
(* ----------------------------------------------------------------------- *)
\* l_len96, lp_len96 and octave_last of a channel
ReentryFields(ch) == <<ch.l_len96, ch.lp_len96, ch.octave_last>>

\* C29: whenever a ']' succeeds, the values of l_len96, lp_len96 and
\* octave_last in force just before the ']' equal the values they had when
\* the matching '[' was compiled.
C29_LoopReentryConsistency ==
    LoopClosed =>
        ReentryFields(last.pre) =
            <<ClosedLevel.open[1], ClosedLevel.open[2], ClosedLevel.open[4]>>


(* ----------------------------------------------------------------------- *)
(* Where a break lands (checked under SpecJump)                            *)
(* ----------------------------------------------------------------------- *)
\* exit_mark of the loop the last ']' closed: the offset of the byte that
\* follows its three-byte F3 instruction
ClosedExitMark == last.pre.loops[last.pre.nest_depth - 1].exit_mark

\* C30: for every successfully closed loop that contains ':', the 16-bit
\* little-endian value stored after the F3 opcode, added to the offset of
\* the byte following the 3-byte F3 instruction (exit_mark), equals the
\* offset of the first byte after the loop's back-jump instruction (out_len
\* right after the ']'), for the 2-byte F1 and the 3-byte F2 back-jump alike.
C30_BreakTarget ==
    (LoopClosed /\ ClosedLevel.colon) =>
        /\ ClosedExitMark = ClosedLevel.f3 + 3
        /\ c.out[ClosedExitMark - 2] = 243
        /\ Emitted[1] \in {241, 242}
        /\ Len(Emitted) = IF Emitted[1] = 241 THEN 2 ELSE 3
        /\ ClosedExitMark
             + (c.out[ClosedExitMark - 1] + 256 * c.out[ClosedExitMark])
             = out_len(c)

\* "[ c : ]3" has just been closed with the two-byte back-jump: the word
\* after F3 is 2, and 6 + 2 = 8 is the offset after F1 FA
C30_Witness ==
    /\ LoopClosed
    /\ ClosedLevel.colon
    /\ c.out = <<240, 3, 1, 243, 2, 0, 241, 250>>
    /\ ClosedExitMark = 6


(* ----------------------------------------------------------------------- *)
(* What a statement does to the bytes already emitted (checked under Spec) *)
(* ----------------------------------------------------------------------- *)
\* the offsets at which the last statement changed a byte that had been
\* emitted before it
ModifiedOffsets ==
    {k \in 0 .. out_len(last.pre) - 1 :
        k >= out_len(c) \/ c.out[k + 1] # last.pre.out[k + 1]}

\* offset k holds a placeholder of the loop the last ']' closed: the count
\* byte its '[' emitted, or one of the two bytes its ':' emitted after F3
PlaceholderOfClosedLoop(k) ==
    /\ last.op = "]"
    /\ last.pre.nest_depth \in 1 .. MML_MAX_NEST
    /\ \/ /\ k = ClosedLevel.hole
          /\ k >= 1 /\ last.pre.out[k] = 240
       \/ /\ ClosedLevel.colon
          /\ k \in {ClosedLevel.f3 + 1, ClosedLevel.f3 + 2}
          /\ ClosedLevel.f3 + 3 <= out_len(last.pre)
          /\ last.pre.out[ClosedLevel.f3 + 1] = 243

\* the last statement left the emitted bytes alone, but for the placeholders
\* of the loop a ']' closed, and stored nowhere outside the buffer
AppendOnly ==
    /\ out_len(c) >= out_len(last.pre)
    /\ \A k \in ModifiedOffsets : PlaceholderOfClosedLoop(k)
    /\ ~c.oob

\* C31: over any sequence of mml_compile_line calls, lines that ended in an
\* error (INTERNAL included) and any out_cap included, a byte once emitted is
\* never modified by a later statement, except the count placeholder emitted
\* by '[' and the two placeholder bytes emitted by ':', each overwritten by
\* the ']' that closes that same loop; every backpatch write goes to an
\* index below out_len that holds such a placeholder.
C31_AppendOnlyOutput == AppendOnly

\* C31 on a channel in which no emission has been refused for lack of space
C31_AppendOnlyWithRoom == (c.out_cap = CH_BUF_SIZE) => AppendOnly

=============================================================================
